---------------------------- MODULE Spec2Model ----------------------------
(***************************************************************************)
(* Model of the bot-testing harness of ZhMax/AIforce_coding:               *)
(*   - bot_testing/utils.py        regex_to_sample_message                 *)
(*   - bot_testing/coverage/tracker.py   CoverageTracker                   *)
(*   - bot_testing/config/extractor.py   ElementExtractor                  *)
(*   - bot_testing/config/bot_analyzer.py  BotAnalyzer                     *)
(*   - bot_testing/config/loader.py      ConfigLoader.load                 *)
(*   - bot_testing/execution/client.py   BotTestClient sessions            *)
(*   - tests/conftest.py           _load_bot_config, _make_test_id,        *)
(*                                 pytest_generate_tests, the fixtures     *)
(*   - tests/pipeline.py           run_full_pipeline                       *)
(*   - tests/test_structural.py, tests/test_entry_edges.py                 *)
(*                                                                         *)
(* A Python str is a sequence of one-character strings.  A character that  *)
(* is not ASCII is written as its code point ("U043F" is CYRILLIC SMALL    *)
(* LETTER PE).  A Python dict is a function whose domain is its key set;   *)
(* the empty dict and the empty list are both << >>, and both are falsy.   *)
(***************************************************************************)
EXTENDS Integers, Sequences, FiniteSets, TLC

VARIABLES
    pattern,          \* regex_to_sample_message: the argument
    text,             \* regex_to_sample_message: the local `pattern` as it is rewritten
    probe,            \* regex_to_sample_message: the returned string
    pc,               \* regex_to_sample_message: the statement reached
    tested_elements,  \* CoverageTracker.tested_elements
    test_results,     \* CoverageTracker.test_results
    marks,            \* history: the mark_*_tested calls made so far, in order
    config_attrs,     \* ElementExtractor.config_attrs
    cache,            \* conftest._BOT_CONFIG_CACHE
    returned,         \* the last call made on an object and what it returned
    analyzer,         \* BotAnalyzer: config, bot_info and _is_loaded
    current_session,  \* BotTestClient.current_session
    uuids,            \* the number of uuid.uuid4() calls made so far
    pipeline,         \* run_full_pipeline: its arguments, the statement reached, its result
    history           \* history: the calls made so far on the harness, in order

probeVars == <<pattern, text, probe, pc>>
trackerVars == <<tested_elements, test_results, marks>>

harnessVars == <<analyzer, current_session, uuids, pipeline, history>>

vars == <<pattern, text, probe, pc, tested_elements, test_results, marks,
          config_attrs, cache, returned, analyzer, current_session, uuids,
          pipeline, history>>

\* Python's None: a value that is no string (no sequence of characters)
None == <<"None-object">>

\* a component that takes no part in a specification stays as constructed
ProbeIdle == pattern = << >> /\ text = << >> /\ probe = << >> /\ pc = "idle"

TrackerNew == tested_elements = {} /\ test_results = << >> /\ marks = << >>

\* Python's None where a dict is expected
NoneDict == [NoneType |-> "None"]

\* BotAnalyzer.__init__
BotAnalyzerNew ==
    [config |-> NoneDict, bot_info |-> NoneDict, is_loaded |-> FALSE, extractor |-> NoneDict]

AnalyzerNew == analyzer = BotAnalyzerNew

\* BotTestClient.__init__: no session, and no uuid drawn yet
ClientNew == current_session = None /\ uuids = 0

PipelineIdle == pipeline = [pc |-> "idle"]

HarnessIdle == AnalyzerNew /\ ClientNew /\ PipelineIdle /\ history = << >>

ExtractorNew == config_attrs = NoneDict

CacheEmpty == cache = << >>

NoCall == [call |-> "none"]

(***************************************************************************)
(* Characters                                                              *)
(***************************************************************************)
BS == "\\"
SP == " "
TAB == "\t"

\* str.split() and the regex class \s split and match on whitespace
IsSpace(c) == c \in {SP, TAB, "\n", "\r"}

\* helpers on sequences
RECURSIVE LeadingRun(_, _)
LeadingRun(s, c) ==
    IF s # << >> /\ Head(s) = c THEN 1 + LeadingRun(Tail(s), c) ELSE 0

RECURSIVE LeadingSpaces(_)
LeadingSpaces(s) ==
    IF s # << >> /\ IsSpace(Head(s)) THEN 1 + LeadingSpaces(Tail(s)) ELSE 0

Drop(s, n) == SubSeq(s, n + 1, Len(s))

StartsWith(s, p) == Len(s) >= Len(p) /\ SubSeq(s, 1, Len(p)) = p

Reverse(s) == [i \in 1..Len(s) |-> s[Len(s) + 1 - i]]


(***************************************************************************)
(* bot_testing/utils.py: regex_to_sample_message                           *)
(***************************************************************************)

\* pattern.split("|")[0], taken only when "|" occurs in the pattern
RECURSIVE BeforeFirstBar(_)
BeforeFirstBar(s) ==
    IF s = << >> \/ Head(s) = "|" THEN << >>
    ELSE <<Head(s)>> \o BeforeFirstBar(Tail(s))

HasBar(s) == \E i \in 1..Len(s) : s[i] = "|"

\* variant for comparison: the last alternative is taken instead of the first
RECURSIVE AfterLastBar(_)
AfterLastBar(s) ==
    IF HasBar(s) THEN AfterLastBar(Drop(s, Len(BeforeFirstBar(s)) + 1)) ELSE s

FirstAlternative_Last(s) == AfterLastBar(s)

FirstAlternative(s) == IF HasBar(s) THEN BeforeFirstBar(s) ELSE s

\* str.lstrip(c), str.rstrip(c): every leading (trailing) occurrence goes
LStrip(s, c) == Drop(s, LeadingRun(s, c))

RStrip(s, c) == Reverse(LStrip(Reverse(s), c))

\* variant for comparison: one leading "^" and one trailing "$" at most are removed
StripAnchors_OneEach(s) ==
    LET t == IF s # << >> /\ Head(s) = "^" THEN Tail(s) ELSE s IN
    IF t # << >> /\ t[Len(t)] = "$" THEN SubSeq(t, 1, Len(t) - 1) ELSE t

StripAnchors(s) == RStrip(LStrip(s, "^"), "$")

\* The eight regular expressions of `replacements`, as the regex engine
\* reads them: the length of the (greedy) match at the head of s, -1 for none.
\*   r"\s+"  one or more whitespace characters
\*   r"\s*"  zero or more whitespace characters (matches the empty string)
\*   r"\.+"  one or more literal dots
\*   r"\.\*" a literal dot followed by a literal star
\*   r"\\d+" a literal backslash followed by one or more letters d
\*   r"\\d\*" a literal backslash, the letter d, a literal star
\*   r"\\w+", r"\\w\*" the same with the letter w
MatchLen(rx, s) ==
    CASE rx = "ws+"  -> IF LeadingSpaces(s) > 0 THEN LeadingSpaces(s) ELSE -1
      [] rx = "ws*"  -> LeadingSpaces(s)
      [] rx = "dot+" -> IF LeadingRun(s, ".") > 0 THEN LeadingRun(s, ".") ELSE -1
      [] rx = "dot_star" -> IF StartsWith(s, <<".", "*">>) THEN 2 ELSE -1
      [] rx = "bs_d+" -> IF s # << >> /\ Head(s) = BS /\ LeadingRun(Tail(s), "d") > 0
                         THEN 1 + LeadingRun(Tail(s), "d") ELSE -1
      [] rx = "bs_d_star" -> IF StartsWith(s, <<BS, "d", "*">>) THEN 3 ELSE -1
      [] rx = "bs_w+" -> IF s # << >> /\ Head(s) = BS /\ LeadingRun(Tail(s), "w") > 0
                         THEN 1 + LeadingRun(Tail(s), "w") ELSE -1
      [] rx = "bs_w_star" -> IF StartsWith(s, <<BS, "w", "*">>) THEN 3 ELSE -1

\* re.sub(rx, repl, s): leftmost non-overlapping matches are replaced; an
\* empty match is replaced too, except directly after an empty match at the
\* same position (must_advance).
RECURSIVE ReSubFrom(_, _, _, _)
ReSubFrom(rx, repl, s, must_advance) ==
    LET n == MatchLen(rx, s) IN
    IF n > 0 THEN repl \o ReSubFrom(rx, repl, Drop(s, n), FALSE)
    ELSE IF n = 0 /\ ~must_advance THEN repl \o ReSubFrom(rx, repl, s, TRUE)
    ELSE IF s = << >> THEN << >>
    ELSE <<Head(s)>> \o ReSubFrom(rx, repl, Tail(s), FALSE)

ReSub(rx, repl, s) == ReSubFrom(rx, repl, s, FALSE)

replacements ==
    << <<"ws+", <<SP>> >>, <<"ws*", <<SP>> >>,
       <<"dot+", <<SP>> >>, <<"dot_star", <<SP>> >>,
       <<"bs_d+", <<"1">> >>, <<"bs_d_star", <<"1">> >>,
       <<"bs_w+", <<"a">> >>, <<"bs_w_star", <<"a">> >> >>

RECURSIVE ApplyFrom(_, _)
ApplyFrom(i, s) ==
    IF i > Len(replacements) THEN s
    ELSE ApplyFrom(i + 1, ReSub(replacements[i][1], replacements[i][2], s))

ApplyReplacements(s) == ApplyFrom(1, s)

\* variant for comparison: the backslashes stay
RemoveBackslashes_Keep(s) == s

\* pattern.replace("\\", "")
RemoveBackslashes(s) == SelectSeq(s, LAMBDA c : c # BS)

\* str.strip(): leading and trailing whitespace goes
Strip(s) ==
    LET t == Drop(s, LeadingSpaces(s)) IN
    Reverse(Drop(Reverse(t), LeadingSpaces(Reverse(t))))

\* " ".join(pattern.split()): the words between whitespace runs, one space apart
RECURSIVE FirstWord(_)
FirstWord(s) ==
    IF s = << >> \/ IsSpace(Head(s)) THEN << >>
    ELSE <<Head(s)>> \o FirstWord(Tail(s))

RECURSIVE Split(_)
Split(s) ==
    LET t == Drop(s, LeadingSpaces(s)) IN
    IF t = << >> THEN << >>
    ELSE <<FirstWord(t)>> \o Split(Drop(t, Len(FirstWord(t))))

RECURSIVE Join(_, _)
Join(words, sep) ==
    IF words = << >> THEN << >>
    ELSE IF Len(words) = 1 THEN words[1]
    ELSE words[1] \o sep \o Join(Tail(words), sep)

CollapseSpaces(s) == Join(Split(s), <<SP>>)

DefaultProbe == <<"t", "e", "s", "t">>

\* the last statements: the default when nothing is left, else the stripped text
FinalProbe(s) == IF Strip(s) = << >> THEN DefaultProbe ELSE Strip(s)

\* the whole function
regex_to_sample_message(p) ==
    IF p = << >> THEN DefaultProbe
    ELSE FinalProbe(CollapseSpaces(RemoveBackslashes(
             ApplyReplacements(StripAnchors(FirstAlternative(p))))))


(***************************************************************************)
(* Inputs of regex_to_sample_message: every string over ProbeAlphabet up   *)
(* to MaxPatternLen characters, and the patterns the docstring names.      *)
(***************************************************************************)
MaxPatternLen == 3

ProbeAlphabet == {"a", "d", "w", SP, TAB, ".", "*", "+", BS, "^", "$", "|"}

BoundedPatterns == UNION {[1..n -> ProbeAlphabet] : n \in 0..MaxPatternLen}

\* "/start|начать|привет"
PatStartAlternatives ==
    <<"/", "s", "t", "a", "r", "t", "|",
      "U043D", "U0430", "U0447", "U0430", "U0442", "U044C", "|",
      "U043F", "U0440", "U0438", "U0432", "U0435", "U0442">>

\* "^help$"
PatHelp == <<"^", "h", "e", "l", "p", "$">>

\* "test.*value"
PatTestValue == <<"t", "e", "s", "t", ".", "*", "v", "a", "l", "u", "e">>

\* "\d+" (three characters)
PatDigits == <<BS, "d", "+">>

DocumentedPatterns == {PatStartAlternatives, PatHelp, PatTestValue, << >>, PatDigits}

ProbePatterns == BoundedPatterns \cup DocumentedPatterns

ProbeInit ==
    /\ pattern \in ProbePatterns
    /\ text = << >>
    /\ probe = << >>
    /\ pc = "start"
    /\ TrackerNew
    /\ ExtractorNew
    /\ CacheEmpty
    /\ returned = NoCall
    /\ HarnessIdle

\* a call of regex_to_sample_message touches no other object
ProbeFrame == UNCHANGED <<trackerVars, config_attrs, cache, returned, harnessVars>>

\* if not pattern: return "test"
CheckEmpty ==
    /\ pc = "start"
    /\ IF pattern = << >>
       THEN /\ probe' = DefaultProbe
            /\ pc' = "done"
            /\ UNCHANGED text
       ELSE /\ text' = pattern
            /\ pc' = "alt"
            /\ UNCHANGED probe
    /\ UNCHANGED pattern
    /\ ProbeFrame

\* if "|" in pattern: pattern = pattern.split("|")[0]
TakeFirstAlternative ==
    /\ pc = "alt"
    /\ text' = FirstAlternative(text)
    /\ pc' = "anchors"
    /\ UNCHANGED <<pattern, probe>>
    /\ ProbeFrame

\* pattern = pattern.lstrip("^").rstrip("$")
StripAnchorsStep ==
    /\ pc = "anchors"
    /\ text' = StripAnchors(text)
    /\ pc' = "replace"
    /\ UNCHANGED <<pattern, probe>>
    /\ ProbeFrame

\* for regex_pat, replacement in replacements: pattern = re.sub(...)
ReplaceStep ==
    /\ pc = "replace"
    /\ text' = ApplyReplacements(text)
    /\ pc' = "unescape"
    /\ UNCHANGED <<pattern, probe>>
    /\ ProbeFrame

\* pattern = pattern.replace("\\", "")
UnescapeStep ==
    /\ pc = "unescape"
    /\ text' = RemoveBackslashes(text)
    /\ pc' = "collapse"
    /\ UNCHANGED <<pattern, probe>>
    /\ ProbeFrame

\* pattern = " ".join(pattern.split())
CollapseStep ==
    /\ pc = "collapse"
    /\ text' = CollapseSpaces(text)
    /\ pc' = "return"
    /\ UNCHANGED <<pattern, probe>>
    /\ ProbeFrame

\* if not pattern.strip(): return "test" / return pattern.strip()
ReturnProbe ==
    /\ pc = "return"
    /\ probe' = FinalProbe(text)
    /\ pc' = "done"
    /\ UNCHANGED <<pattern, text>>
    /\ ProbeFrame

ProbeNext ==
    \/ CheckEmpty
    \/ TakeFirstAlternative
    \/ StripAnchorsStep
    \/ ReplaceStep
    \/ UnescapeStep
    \/ CollapseStep
    \/ ReturnProbe

SpecProbe == ProbeInit /\ [][ProbeNext]_vars


(***************************************************************************)
(* Claims about regex_to_sample_message (checked under SpecProbe)          *)
(***************************************************************************)
Expected(p) ==
    CASE p = PatStartAlternatives -> <<"/", "s", "t", "a", "r", "t">>
      [] p = PatHelp -> <<"h", "e", "l", "p">>
      [] p = PatTestValue -> <<"t", "e", "s", "t", SP, "v", "a", "l", "u", "e">>
      [] p = << >> -> <<"t", "e", "s", "t">>
      [] p = PatDigits -> <<"1">>

\* C2: the five documented patterns give the documented probes:
\* "/start|..." gives "/start", "^help$" gives "help", "test.*value" gives
\* "test value", "" gives "test", "\d+" gives "1".
C2_DocumentedProbes ==
    (pc = "done" /\ pattern \in DocumentedPatterns) => probe = Expected(pattern)

IsAlnum(c) == c \in {"a", "d", "w", "h", "e", "l", "p", "s", "t", "1"}

\* a word or phrase: letters and digits, words one space apart
IsSimplePhrase(s) ==
    /\ s # << >>
    /\ \A i \in 1..Len(s) : IsAlnum(s[i]) \/ s[i] = SP
    /\ s[1] # SP /\ s[Len(s)] # SP
    /\ \A i \in 1..(Len(s) - 1) : ~(s[i] = SP /\ s[i + 1] = SP)

\* C3: a pattern that is a simple word or phrase is returned unchanged.
C3_SimplePhraseUnchanged ==
    (pc = "done" /\ IsSimplePhrase(pattern)) => probe = pattern

Repeat(c, n) == [i \in 1..n |-> c]

\* C4 as stated: of k >= 2 leading carets (trailing dollars) of the selected
\* alternative exactly one is removed by the anchor step.
C4_OneAnchorEach ==
    pc = "replace" => text = StripAnchors_OneEach(FirstAlternative(pattern))

\* C4 as amended: the anchor step removes every leading "^" and then every
\* trailing "$" of the selected alternative: the alternative is some carets,
\* the text passed on, and some dollars, and the text passed on neither
\* begins with "^" nor ends with "$".
C4_AllAnchorsStripped ==
    pc = "replace" =>
        /\ \E k \in 0..Len(pattern), m \in 0..Len(pattern) :
              FirstAlternative(pattern) = Repeat("^", k) \o text \o Repeat("$", m)
        /\ text # << >> => (Head(text) # "^" /\ text[Len(text)] # "$")

\* two leading carets were there, and none is left
C4_Witness ==
    /\ pc = "replace"
    /\ StartsWith(FirstAlternative(pattern), <<"^", "^">>)
    /\ text = <<"a">>

\* C5: only the first alternative influences the probe: the probe of
\* a + "|" + b is the probe of a, also when a is empty.
C5_FirstAlternativeOnly ==
    (pc = "done" /\ HasBar(pattern)) =>
        probe = regex_to_sample_message(BeforeFirstBar(pattern))

C5_Witness ==
    /\ pc = "done"
    /\ pattern = <<"a", "|", "d">>
    /\ probe = <<"a">>

\* C6: the function is total: for every pattern, the empty one included, the
\* call that has run to its return statement has returned a string that is
\* non-empty, without leading or trailing whitespace, without two adjacent
\* whitespace characters and without a backslash; it is "test" whenever the
\* processed pattern is empty.
C6_TotalAndClean ==
    pc = "done" =>
          /\ probe # << >>
          /\ ~IsSpace(probe[1]) /\ ~IsSpace(probe[Len(probe)])
          /\ \A i \in 1..(Len(probe) - 1) : ~(IsSpace(probe[i]) /\ IsSpace(probe[i + 1]))
          /\ \A i \in 1..Len(probe) : probe[i] # BS
          /\ (pattern = << >> \/ \A i \in 1..Len(text) : IsSpace(text[i]))
                => probe = DefaultProbe

\* a pattern of backslashes and whitespace only has been processed to nothing
C6_Witness ==
    /\ pc = "done"
    /\ pattern = <<BS, SP, BS>>
    /\ probe = DefaultProbe


(***************************************************************************)
(* bot_testing/coverage/tracker.py: CoverageTracker                        *)
(***************************************************************************)

\* f"block:{block_path}", f"edge:{edge_path}", f"node:{node_path}"
BlockKey(path) == <<"b", "l", "o", "c", "k", ":">> \o path

\* variant for comparison: the edge key is built with the block prefix
EdgeKey_BlockPrefix(path) == <<"b", "l", "o", "c", "k", ":">> \o path

EdgeKey(path) == <<"e", "d", "g", "e", ":">> \o path

NodeKey(path) == <<"n", "o", "d", "e", ":">> \o path

\* self.tested_elements.add(key); self.test_results[key].append({"passed": passed})
\* test_results is a defaultdict(list): a key not yet there starts from []
Mark(key, passed) ==
    /\ tested_elements' = tested_elements \cup {key}
    /\ test_results' =
          IF key \in DOMAIN test_results
          THEN [test_results EXCEPT ![key] = Append(@, [passed |-> passed])]
          ELSE [k \in DOMAIN test_results \cup {key} |->
                   IF k = key THEN <<[passed |-> passed]>> ELSE test_results[k]]

\* ROUND_HALF_EVEN of num / den, for num >= 0 and den > 0
RoundHalfEven(num, den) ==
    LET q == num \div den
        r == num % den
    IN  IF 2 * r > den \/ (2 * r = den /\ q % 2 = 1) THEN q + 1 ELSE q

\* variant for comparison: the division is made whatever the total
Coverage_Unguarded(tested, total) ==
    IF total = 0 THEN [raised |-> "ZeroDivisionError"]
    ELSE [raised |-> "none", tenths |-> RoundHalfEven(tested * 1000, total)]

\* coverage = (tested / total_elements * 100) if total_elements > 0 else 0,
\* then round(coverage, 1): the percentage in tenths of a percent
Coverage(tested, total) ==
    IF total > 0
    THEN [raised |-> "none", tenths |-> RoundHalfEven(tested * 1000, total)]
    ELSE [raised |-> "none", tenths |-> 0]

CoverageSummary(tested, total) ==
    LET c == Coverage(tested, total) IN
    IF c.raised # "none" THEN [raised |-> c.raised]
    ELSE [raised |-> "none",
          total_elements |-> total,
          tested_elements |-> tested,
          coverage_percent_tenths |-> c.tenths,
          untested_elements |-> total - tested]

(***************************************************************************)
(* The tracker's callers: paths of elements, outcomes, totals.             *)
(***************************************************************************)
MaxMarks == 3
MaxTotal == 3

TrackerPaths == {<<"p">>, <<"q">>}

TrackerFrame == UNCHANGED <<probeVars, config_attrs, cache, harnessVars>>

TrackerInit ==
    /\ TrackerNew
    /\ ProbeIdle
    /\ ExtractorNew
    /\ CacheEmpty
    /\ returned = NoCall
    /\ HarnessIdle

mark_block_tested(path, passed) ==
    /\ Len(marks) < MaxMarks
    /\ Mark(BlockKey(path), passed)
    /\ marks' = Append(marks, [kind |-> "block", path |-> path, passed |-> passed])
    /\ returned' = [call |-> "mark_block_tested"]
    /\ TrackerFrame

mark_edge_tested(path, passed) ==
    /\ Len(marks) < MaxMarks
    /\ Mark(EdgeKey(path), passed)
    /\ marks' = Append(marks, [kind |-> "edge", path |-> path, passed |-> passed])
    /\ returned' = [call |-> "mark_edge_tested"]
    /\ TrackerFrame

mark_node_tested(path, passed) ==
    /\ Len(marks) < MaxMarks
    /\ Mark(NodeKey(path), passed)
    /\ marks' = Append(marks, [kind |-> "node", path |-> path, passed |-> passed])
    /\ returned' = [call |-> "mark_node_tested"]
    /\ TrackerFrame

get_coverage_summary(total_elements) ==
    /\ returned' = [call |-> "get_coverage_summary",
                    total_elements |-> total_elements,
                    value |-> CoverageSummary(Cardinality(tested_elements), total_elements)]
    /\ UNCHANGED trackerVars
    /\ TrackerFrame

MarkBlock == \E path \in TrackerPaths, passed \in BOOLEAN : mark_block_tested(path, passed)
MarkEdge == \E path \in TrackerPaths, passed \in BOOLEAN : mark_edge_tested(path, passed)
MarkNode == \E path \in TrackerPaths, passed \in BOOLEAN : mark_node_tested(path, passed)
GetSummary == \E total \in 0..MaxTotal : get_coverage_summary(total)

TrackerNext ==
    \/ MarkBlock
    \/ MarkEdge
    \/ MarkNode
    \/ GetSummary

SpecTracker == TrackerInit /\ [][TrackerNext]_vars

(***************************************************************************)
(* Claims about CoverageTracker (checked under SpecTracker)                *)
(***************************************************************************)
Prefix(kind) ==
    CASE kind = "block" -> <<"b", "l", "o", "c", "k", ":">>
      [] kind = "edge" -> <<"e", "d", "g", "e", ":">>
      [] kind = "node" -> <<"n", "o", "d", "e", ":">>

\* the outcomes of the marks of one element, in call order
RECURSIVE OutcomesOf(_, _, _)
OutcomesOf(log, kind, path) ==
    IF log = << >> THEN << >>
    ELSE (IF Head(log).kind = kind /\ Head(log).path = path
          THEN <<[passed |-> Head(log).passed]>> ELSE << >>)
         \o OutcomesOf(Tail(log), kind, path)

MarkedElements == {<<marks[i].kind, marks[i].path>> : i \in 1..Len(marks)}

\* C7: after any sequence of mark calls the tested count is the number of
\* distinct (kind, path) elements marked so far, the tested set holds their
\* kind-prefixed keys, and the history of each key holds one pass/fail
\* record per mark call on that key, in call order.
C7_TestedSetAndHistory ==
    /\ Cardinality(tested_elements) = Cardinality(MarkedElements)
    /\ tested_elements = {Prefix(e[1]) \o e[2] : e \in MarkedElements}
    /\ DOMAIN test_results = tested_elements
    /\ \A e \in MarkedElements :
          test_results[Prefix(e[1]) \o e[2]] = OutcomesOf(marks, e[1], e[2])

\* one path marked as a block twice (failed, passed) and as an edge once
C7_Witness ==
    /\ Len(marks) = 3
    /\ Cardinality(tested_elements) = 2
    /\ BlockKey(<<"p">>) \in DOMAIN test_results
    /\ test_results[BlockKey(<<"p">>)] = <<[passed |-> FALSE], [passed |-> TRUE]>>
    /\ EdgeKey(<<"p">>) \in tested_elements

\* C8: get_coverage_summary(0) never fails and reports 0 percent in every
\* tracker state; on a tracker with no marks it returns total 0, tested 0,
\* percent 0 and untested 0.
C8_ZeroTotal ==
    (returned.call = "get_coverage_summary" /\ returned.total_elements = 0) =>
        /\ returned.value.raised = "none"
        /\ returned.value.coverage_percent_tenths = 0
        /\ returned.value.total_elements = 0
        /\ returned.value.tested_elements = Cardinality(MarkedElements)
        /\ marks = << >> =>
              returned.value = [raised |-> "none", total_elements |-> 0,
                                tested_elements |-> 0, coverage_percent_tenths |-> 0,
                                untested_elements |-> 0]

\* a zero total asked of a tracker that holds marks
C8_Witness ==
    /\ returned.call = "get_coverage_summary"
    /\ returned.total_elements = 0
    /\ Cardinality(tested_elements) = 2
    /\ returned.value.untested_elements = -2


(***************************************************************************)
(* Python values: dict.get, f-strings                                      *)
(***************************************************************************)

\* d.get(k, default)
Get(d, k, default) == IF k \in DOMAIN d THEN d[k] ELSE default

\* the dict d with d[k] = v
With(d, k, v) == [x \in DOMAIN d \cup {k} |-> IF x = k THEN v ELSE d[x]]

Digit(i) == <<"0", "1", "2", "3", "4", "5", "6", "7", "8", "9">>[i + 1]

\* f"{i}" of an int i >= 0
RECURSIVE FormatInt(_)
FormatInt(i) == IF i < 10 THEN <<Digit(i)>> ELSE FormatInt(i \div 10) \o <<Digit(i % 10)>>

\* f"{v}" of a str or None
FormatStr(v) == IF v = None THEN <<"N", "o", "n", "e">> ELSE v

RECURSIVE Flatten(_)
Flatten(seqs) == IF seqs = << >> THEN << >> ELSE Head(seqs) \o Flatten(Tail(seqs))

S_unknown == <<"u", "n", "k", "n", "o", "w", "n">>
S_match == <<"m", "a", "t", "c", "h">>
S_event == <<"e", "v", "e", "n", "t">>
S_buttons == <<"b", "u", "t", "t", "o", "n", "s">>
S_answer == <<"a", "n", "s", "w", "e", "r">>

(***************************************************************************)
(* bot_testing/config/extractor.py: ElementExtractor                       *)
(***************************************************************************)

\* extract_bot_attributes: the data.attributes envelope is unwrapped
extract_bot_attributes(config) ==
    IF "data" \in DOMAIN config /\ "attributes" \in DOMAIN Get(config, "data", << >>)
    THEN config["data"]["attributes"]
    ELSE config

\* self.config_attrs.get("scenarios", [])
Scenarios(attrs) == Get(attrs, "scenarios", << >>)

\* variant for comparison: the name is preferred to the slug
ScenarioSlug_NameFirst(scenario) == Get(scenario, "name", Get(scenario, "slug", << >>))

\* scenario.get("slug", scenario.get("name", ""))
ScenarioSlug(scenario) == Get(scenario, "slug", Get(scenario, "name", << >>))

ScenarioName(scenario) == Get(scenario, "name", << >>)

\* f"scenarios[{s_idx}].nodes[{node_id}].blocks[{b_idx}]"
BlockPath(s_idx, node_id, b_idx) ==
    <<"s", "c", "e", "n", "a", "r", "i", "o", "s", "[">> \o FormatInt(s_idx) \o <<"]", ".", "n", "o", "d", "e", "s", "[">> \o FormatStr(node_id)
        \o <<"]", ".", "b", "l", "o", "c", "k", "s", "[">> \o FormatInt(b_idx) \o <<"]">>

\* the BlockInfo of block number b_idx (from 0) of a node
BlockInfo(s_idx, scenario, node, b_idx, block) ==
    [path |-> BlockPath(s_idx, Get(node, "id", << >>), b_idx),
     type |-> Get(block, "type", S_unknown),
     data |-> block,
     scenario_slug |-> ScenarioSlug(scenario),
     scenario_name |-> ScenarioName(scenario),
     node_id |-> Get(node, "id", << >>),
     node_name |-> Get(node, "name", << >>),
     block_id |-> Get(block, "id", <<"b", "l", "o", "c", "k", "_">> \o FormatInt(b_idx))]

BlocksOfNode(s_idx, scenario, node) ==
    LET blocks == Get(node, "blocks", << >>) IN
    [b \in 1..Len(blocks) |-> BlockInfo(s_idx, scenario, node, b - 1, blocks[b])]

BlocksOfScenario(s_idx, scenario) ==
    LET nodes == Get(scenario, "nodes", << >>) IN
    Flatten([n \in 1..Len(nodes) |-> BlocksOfNode(s_idx, scenario, nodes[n])])

extract_blocks(attrs) ==
    Flatten([s \in 1..Len(Scenarios(attrs)) |->
                BlocksOfScenario(s - 1, Scenarios(attrs)[s])])

extract_blocks_by_type(attrs, block_type) ==
    SelectSeq(extract_blocks(attrs), LAMBDA b : b.type = block_type)

\* the EntryEdgeInfo of edge number e_idx (from 0) of a scenario
EntryEdgeInfo(s_idx, scenario, e_idx, edge) ==
    [path |-> <<"s", "c", "e", "n", "a", "r", "i", "o", "s", "[">> \o FormatInt(s_idx) \o <<"]", ".", "e", "n", "t", "r", "y", "_", "e", "d", "g", "e", "s", "[">>
                 \o FormatInt(e_idx) \o <<"]">>,
     type |-> Get(edge, "type", S_unknown),
     pattern |-> Get(edge, "value", << >>),
     target_node_id |-> Get(edge, "target_node_id", << >>),
     scenario_slug |-> ScenarioSlug(scenario),
     scenario_name |-> ScenarioName(scenario),
     edge_id |-> Get(edge, "id", None),
     name |-> Get(edge, "name", None)]

EdgesOfScenario(s_idx, scenario) ==
    LET edges == Get(scenario, "entry_edges", << >>) IN
    [e \in 1..Len(edges) |-> EntryEdgeInfo(s_idx, scenario, e - 1, edges[e])]

extract_entry_edges(attrs) ==
    Flatten([s \in 1..Len(Scenarios(attrs)) |->
                EdgesOfScenario(s - 1, Scenarios(attrs)[s])])

extract_entry_edges_by_type(attrs, edge_type) ==
    SelectSeq(extract_entry_edges(attrs), LAMBDA e : e.type = edge_type)

\* node_blocks = [b for b in blocks if b.node_id == node.get("id")]:
\* the id looked up without a default, None when the node has none
NodeBlocks(attrs, node) ==
    SelectSeq(extract_blocks(attrs), LAMBDA b : b.node_id = Get(node, "id", None))

\* the NodeInfo of node number n_idx (from 0) of a scenario
NodeInfo(attrs, s_idx, scenario, n_idx, node) ==
    [path |-> <<"s", "c", "e", "n", "a", "r", "i", "o", "s", "[">> \o FormatInt(s_idx) \o <<"]", ".", "n", "o", "d", "e", "s", "[">>
                 \o FormatInt(n_idx) \o <<"]">>,
     node_id |-> Get(node, "id", << >>),
     name |-> Get(node, "name", << >>),
     scenario_slug |-> ScenarioSlug(scenario),
     scenario_name |-> ScenarioName(scenario),
     blocks |-> NodeBlocks(attrs, node),
     next_node_id |-> Get(node, "next_node_id", None)]

NodesOfScenario(attrs, s_idx, scenario) ==
    LET nodes == Get(scenario, "nodes", << >>) IN
    [n \in 1..Len(nodes) |-> NodeInfo(attrs, s_idx, scenario, n - 1, nodes[n])]

extract_nodes(attrs) ==
    Flatten([s \in 1..Len(Scenarios(attrs)) |->
                NodesOfScenario(attrs, s - 1, Scenarios(attrs)[s])])

\* the ScenarioInfo of scenario number s_idx (from 0)
ScenarioInfo(attrs, s_idx, scenario) ==
    [path |-> <<"s", "c", "e", "n", "a", "r", "i", "o", "s", "[">> \o FormatInt(s_idx) \o <<"]">>,
     scenario_id |-> Get(scenario, "id", None),
     name |-> ScenarioName(scenario),
     slug |-> ScenarioSlug(scenario),
     parent_scenario_id |-> Get(scenario, "parent_scenario_id", None),
     entry_edges |-> SelectSeq(extract_entry_edges(attrs),
                        LAMBDA e : e.scenario_slug = ScenarioSlug(scenario)),
     nodes |-> SelectSeq(extract_nodes(attrs),
                  LAMBDA n : n.scenario_slug = ScenarioSlug(scenario))]

extract_scenarios(attrs) ==
    [s \in 1..Len(Scenarios(attrs)) |-> ScenarioInfo(attrs, s - 1, Scenarios(attrs)[s])]


(***************************************************************************)
(* Configurations: every configuration built from the given element        *)
(* dicts whose scenarios, nodes, blocks and entry edges number at most n   *)
(* together.  A list that is empty is left out of its dict (the code reads *)
(* it with a default).                                                     *)
(***************************************************************************)
SeqsUpTo(S, n) == UNION {[1..k -> S] : k \in 0..n}

WithList(d, k, list) == IF list = << >> THEN d ELSE With(d, k, list)

NodeDicts(NL, BL, n) ==
    {WithList(l, "blocks", bs) : l \in NL, bs \in SeqsUpTo(BL, n - 1)}

NodeWeight(node) == 1 + Len(Get(node, "blocks", << >>))

RECURSIVE NodeLists(_, _, _)
NodeLists(NL, BL, n) ==
    {<< >>} \cup
    (IF n < 1 THEN {}
     ELSE UNION {{<<x>> \o rest : rest \in NodeLists(NL, BL, n - NodeWeight(x))} :
                    x \in NodeDicts(NL, BL, n)})

ScenarioDicts(SL, NL, BL, EL, n) ==
    UNION {{WithList(WithList(l, "entry_edges", es), "nodes", ns) :
               l \in SL, ns \in NodeLists(NL, BL, n - 1 - Len(es))} :
              es \in SeqsUpTo(EL, n - 1)}

RECURSIVE ListWeight(_)
ListWeight(nodes) ==
    IF nodes = << >> THEN 0 ELSE NodeWeight(Head(nodes)) + ListWeight(Tail(nodes))

ScenarioWeight(sc) ==
    1 + Len(Get(sc, "entry_edges", << >>)) + ListWeight(Get(sc, "nodes", << >>))

RECURSIVE ScenarioLists(_, _, _, _, _)
ScenarioLists(SL, NL, BL, EL, n) ==
    {<< >>} \cup
    (IF n < 1 THEN {}
     ELSE UNION {{<<x>> \o rest :
                     rest \in ScenarioLists(SL, NL, BL, EL, n - ScenarioWeight(x))} :
                    x \in ScenarioDicts(SL, NL, BL, EL, n)})

\* the forms a configuration file takes: the attributes at the top level or
\* inside the data.attributes envelope of an export; without scenarios the
\* mapping may be empty or hold other keys only
Attributes(scenarios) ==
    IF scenarios = << >>
    THEN {<< >>, [bot_name |-> <<"B">>], [bot_name |-> <<"B">>, scenarios |-> << >>]}
    ELSE {[scenarios |-> scenarios]}

ConfigForms(scenarios) ==
    Attributes(scenarios)
    \cup {[data |-> [attributes |-> a]] : a \in Attributes(scenarios)}

Configs(SL, NL, BL, EL, n) ==
    UNION {ConfigForms(scs) : scs \in ScenarioLists(SL, NL, BL, EL, n)}

(***************************************************************************)
(* The extractor's callers                                                 *)
(***************************************************************************)
MaxElements == 4

BlockDicts == {<< >>, [type |-> S_buttons, id |-> <<"b", "1">>]}

NodeLabels == {<< >>, [id |-> <<"n", "1">>], [id |-> <<"n", "2">>, name |-> <<"N">>]}

EdgeDicts ==
    {<< >>, [type |-> S_match, value |-> <<"h", "i">>, target_node_id |-> <<"n", "1">>]}

ScenarioLabels ==
    {<< >>, [name |-> <<"s", "1">>],
     [slug |-> <<"s", "2">>, name |-> <<"A">>, id |-> <<"i", "1">>]}

\* the configurations of at most n scenarios, nodes, blocks and edges
ExtractorConfigs(n) == Configs(ScenarioLabels, NodeLabels, BlockDicts, EdgeDicts, n)

\* the configurations given to an extractor that already holds one
LaterConfigs ==
    {<< >>,
     [scenarios |-> <<[slug |-> <<"s", "1">>,
                       entry_edges |-> <<[type |-> S_match, value |-> None,
                                          target_node_id |-> None]>>]>>],
     [scenarios |-> <<[slug |-> <<"s", "1">>,
                       nodes |-> <<[id |-> <<"n", "1">>,
                                    blocks |-> <<[type |-> S_buttons]>>]>>]>>]}

ExtractorFrame == UNCHANGED <<probeVars, trackerVars, cache, harnessVars>>

ExtractorInit ==
    /\ ExtractorNew
    /\ ProbeIdle
    /\ TrackerNew
    /\ CacheEmpty
    /\ returned = NoCall
    /\ HarnessIdle

\* self.config_attrs = ElementExtractor.extract_bot_attributes(config)
set_config_attr(config) ==
    /\ config_attrs' = extract_bot_attributes(config)
    /\ returned' = [call |-> "set_config_attr"]
    /\ ExtractorFrame

\* a method that reads self.config_attrs.get(...): on a new extractor,
\* whose config_attrs is None, the attribute lookup raises
ExtractorCall(name, value) ==
    /\ returned' = IF config_attrs = NoneDict
                   THEN [call |-> name, raised |-> "AttributeError"]
                   ELSE [call |-> name, raised |-> "none", value |-> value]
    /\ UNCHANGED config_attrs
    /\ ExtractorFrame

SetConfigFirst ==
    /\ config_attrs = NoneDict
    /\ \E config \in ExtractorConfigs(MaxElements) : set_config_attr(config)

SetConfigAgain ==
    /\ config_attrs # NoneDict
    /\ \E config \in LaterConfigs : set_config_attr(config)

ExtractBlocks == ExtractorCall("extract_blocks", extract_blocks(config_attrs))

ExtractNodes == ExtractorCall("extract_nodes", extract_nodes(config_attrs))

ExtractEntryEdges == ExtractorCall("extract_entry_edges", extract_entry_edges(config_attrs))

ExtractScenarios == ExtractorCall("extract_scenarios", extract_scenarios(config_attrs))

ExtractorNext ==
    \/ SetConfigFirst
    \/ SetConfigAgain
    \/ ExtractBlocks
    \/ ExtractNodes
    \/ ExtractEntryEdges
    \/ ExtractScenarios

SpecExtractor == ExtractorInit /\ [][ExtractorNext]_vars

(***************************************************************************)
(* Claims about ElementExtractor (checked under SpecExtractor)             *)
(***************************************************************************)

\* C1: for every NodeInfo n returned by extract_nodes(), with or without an
\* id in the source node, n.blocks is, element for element and in order,
\* the sublist of extract_blocks() whose node_id equals n.node_id.
C1_NodeBlocksAreFilter ==
    (returned.call = "extract_nodes" /\ returned.raised = "none") =>
        \A i \in 1..Len(returned.value) :
            returned.value[i].blocks =
                SelectSeq(extract_blocks(config_attrs),
                          LAMBDA b : b.node_id = returned.value[i].node_id)


(***************************************************************************)
(* tests/conftest.py: _load_bot_config, _make_test_id,                     *)
(* pytest_generate_tests                                                   *)
(***************************************************************************)

\* bool(v) is False for None and for the empty dict
Falsy(v) == v = NoneDict \/ v = << >>

\* ConfigLoader.load(config_path): the file is absent, is not JSON, or
\* holds a configuration
load(file) ==
    IF ~file.exists THEN [raised |-> "FileNotFoundError"]
    ELSE IF ~file.json THEN [raised |-> "ValueError"]
    ELSE [raised |-> "none", value |-> file.config]

\* variant for comparison: a failed load is cached as None
LoadBotConfig_CacheFailures(c, file) ==
    IF "bot_config" \in DOMAIN c
    THEN [value |-> c["bot_config"], cache |-> c]
    ELSE IF file.option /\ load(file).raised = "none"
    THEN [value |-> load(file).value, cache |-> With(c, "bot_config", load(file).value)]
    ELSE [value |-> NoneDict, cache |-> With(c, "bot_config", NoneDict)]

\* _load_bot_config: what it returns and what the cache holds afterwards;
\* `file` is what the --bot-config option names when the call is made
LoadBotConfig(c, file) ==
    IF "bot_config" \in DOMAIN c
    THEN [value |-> c["bot_config"], cache |-> c]
    ELSE IF file.option /\ load(file).raised = "none"
    THEN [value |-> load(file).value, cache |-> With(c, "bot_config", load(file).value)]
    ELSE [value |-> NoneDict, cache |-> c]

\* characters the regex class \w does not match; letters of any alphabet,
\* digits and the underscore are word characters
NonWordChars ==
    {SP, TAB, "\n", "\r", ".", "*", "+", BS, "^", "$", "|", "/", ":", "[", "]",
     "(", ")", "?", "-", ","}

IsWordChar(c) == c \notin NonWordChars

RECURSIVE LeadingWordChars(_)
LeadingWordChars(s) ==
    IF s # << >> /\ IsWordChar(Head(s)) THEN 1 + LeadingWordChars(Tail(s)) ELSE 0

\* re.findall(r'[\wа-яА-ЯёЁ]+', pattern)
RECURSIVE FindWords(_)
FindWords(s) ==
    IF s = << >> THEN << >>
    ELSE IF LeadingWordChars(s) = 0 THEN FindWords(Tail(s))
    ELSE <<SubSeq(s, 1, LeadingWordChars(s))>> \o FindWords(Drop(s, LeadingWordChars(s)))

\* s[:n]
Take(s, n) == SubSeq(s, 1, IF n < Len(s) THEN n ELSE Len(s))

MaxIdWords == 3
MaxIdChars == 50

\* variant for comparison: two words are kept and the text is not cut
make_test_id_TwoWordsUncut(p, index) ==
    IF FindWords(p) # << >>
    THEN <<"m", "a", "t", "c", "h", "_">> \o FormatInt(index) \o <<"_">> \o Join(Take(FindWords(p), 2), <<"_">>)
    ELSE <<"m", "a", "t", "c", "h", "_">> \o FormatInt(index) \o <<"_", "p", "a", "t", "t", "e", "r", "n">>

\* variant for comparison: no '_' between the index and the words
make_test_id_NoSeparator(p, index) ==
    IF FindWords(p) # << >>
    THEN <<"m", "a", "t", "c", "h", "_">> \o FormatInt(index)
            \o Take(Join(Take(FindWords(p), MaxIdWords), <<"_">>), MaxIdChars)
    ELSE <<"m", "a", "t", "c", "h", "_">> \o FormatInt(index) \o <<"p", "a", "t", "t", "e", "r", "n">>

make_test_id(p, index) ==
    IF FindWords(p) # << >>
    THEN <<"m", "a", "t", "c", "h", "_">> \o FormatInt(index) \o <<"_">>
            \o Take(Join(Take(FindWords(p), MaxIdWords), <<"_">>), MaxIdChars)
    ELSE <<"m", "a", "t", "c", "h", "_">> \o FormatInt(index) \o <<"_", "p", "a", "t", "t", "e", "r", "n">>

\* pytest.param(None, marks=pytest.mark.skip(...))
SkippedCase == [value |-> NoneDict, id |-> None, skip |-> TRUE]

\* variant for comparison: every entry edge becomes a case
MatchEdgeCases_AllEdges(attrs) ==
    LET edges == extract_entry_edges(attrs) IN
    IF edges # << >>
    THEN [i \in 1..Len(edges) |->
            [value |-> edges[i], id |-> make_test_id(edges[i].pattern, i - 1),
             skip |-> FALSE]]
    ELSE <<SkippedCase>>

\* the cases metafunc.parametrize("match_edge", ...) is called with
MatchEdgeCases(attrs) ==
    LET edges == extract_entry_edges_by_type(attrs, S_match) IN
    IF edges # << >>
    THEN [i \in 1..Len(edges) |->
            [value |-> edges[i], id |-> make_test_id(edges[i].pattern, i - 1),
             skip |-> FALSE]]
    ELSE <<SkippedCase>>

\* any(b.type == "buttons" for b in node.blocks) for some node of the scenario
HasButtons(scenario_info) ==
    \E n \in 1..Len(scenario_info.nodes) :
        \E b \in 1..Len(scenario_info.nodes[n].blocks) :
            scenario_info.nodes[n].blocks[b].type = S_buttons

\* the cases metafunc.parametrize("buttons_scenario", ...) is called with
ButtonsScenarioCases(attrs) ==
    LET scenarios_with_buttons == SelectSeq(extract_scenarios(attrs), HasButtons) IN
    IF scenarios_with_buttons # << >>
    THEN [i \in 1..Len(scenarios_with_buttons) |->
            [value |-> scenarios_with_buttons[i], id |-> scenarios_with_buttons[i].slug,
             skip |-> FALSE]]
    ELSE <<SkippedCase>>

\* the parametrize calls of one pytest_generate_tests run: argname -> cases
Parametrized(fixturenames, attrs) ==
    [f \in fixturenames \cap {"match_edge", "buttons_scenario"} |->
        IF f = "match_edge" THEN MatchEdgeCases(attrs) ELSE ButtonsScenarioCases(attrs)]

\* pytest_generate_tests(metafunc) whose _load_bot_config returned `config`
GenerateTests(fixturenames, config) ==
    [call |-> "pytest_generate_tests",
     fixturenames |-> fixturenames,
     config |-> config,
     parametrized |-> IF Falsy(config) THEN << >>
                      ELSE Parametrized(fixturenames, extract_bot_attributes(config))]

(***************************************************************************)
(* Test collection: the test functions collected and the file that         *)
(* --bot-config names                                                      *)
(***************************************************************************)
MaxCollectEdges == 3
MaxCollected == 3

PatPrivet == <<"U043F", "U0440", "U0438", "U0432", "U0435", "U0442">>
PatStart == <<"/", "s", "t", "a", "r", "t">>
PatHelpAdvice == <<"U043F", "U043E", "U043C", "U043E", "U0449", "U044C", SP, "U0441", "U043E", "U0432", "U0435", "U0442">>
PatNoWords == <<"^", ".", "*", "$">>
PatLong == <<"a", "a", "a", "a", "a", "a", "a", "a", "a", "a", "a", "a", "a", "a", "a", "a", "a", "a", "a", "a", SP, "b", "b", "b", "b", "b", "b", "b", "b", "b", "b", "b", "b", "b", "b", "b", "b", "b", "b", "b", "b", SP, "c", "c", "c", "c", "c", "c", "c", "c", "c", "c", "c", "c", "c", "c", "c", "c", "c", "c", "c", "c", SP, "d", "d", "d", "d">>

CollectEdgeDicts ==
    {[type |-> S_event, value |-> <<"i", "n", "i", "t">>]}
    \cup {[type |-> S_match, value |-> p] :
             p \in {PatPrivet, PatStart, PatHelpAdvice, PatNoWords, PatLong}}

CollectBlockDicts == {[type |-> S_buttons], [type |-> S_answer]}

CollectNodeLabels == {<< >>, [id |-> <<"n", "1">>]}

CollectScenarioLabels == {[slug |-> <<"s", "1">>], [name |-> <<"s", "2">>]}

\* one scenario with up to MaxCollectEdges entry edges of any documented kind
EdgeConfigs ==
    {[scenarios |-> <<WithList([slug |-> <<"s", "1">>], "entry_edges", es)>>] :
        es \in SeqsUpTo(CollectEdgeDicts, MaxCollectEdges)}

\* up to MaxCollected scenarios, nodes, blocks and edges in any arrangement
NodeConfigs ==
    Configs(CollectScenarioLabels, CollectNodeLabels, CollectBlockDicts,
            {[type |-> S_event, value |-> <<"i", "n", "i", "t">>],
             [type |-> S_match, value |-> PatStart]}, MaxCollected)

\* two scenarios, each with up to MaxCollectEdges - 1 entry edges
TwoScenarioConfigs ==
    LET EL == {[type |-> S_event, value |-> <<"i", "n", "i", "t">>],
               [type |-> S_match, value |-> PatStart],
               [type |-> S_match, value |-> PatPrivet]}
    IN {[scenarios |-> <<WithList([slug |-> <<"s", "1">>], "entry_edges", e1),
                         WithList([name |-> <<"s", "2">>], "entry_edges", e2)>>] :
           e1 \in SeqsUpTo(EL, MaxCollectEdges - 1),
           e2 \in SeqsUpTo(EL, MaxCollectEdges - 1)}

CollectConfigs == EdgeConfigs \cup NodeConfigs \cup TwoScenarioConfigs

BotConfigFiles ==
    {[option |-> FALSE, exists |-> FALSE, json |-> FALSE, config |-> << >>],
     [option |-> TRUE, exists |-> FALSE, json |-> FALSE, config |-> << >>],
     [option |-> TRUE, exists |-> TRUE, json |-> FALSE, config |-> << >>]}
    \cup {[option |-> TRUE, exists |-> TRUE, json |-> TRUE, config |-> c] :
             c \in CollectConfigs}

FixtureNames == SUBSET {"match_edge", "buttons_scenario"}

CollectFrame == UNCHANGED <<probeVars, trackerVars, config_attrs, harnessVars>>

CollectInit ==
    /\ CacheEmpty
    /\ ProbeIdle
    /\ TrackerNew
    /\ ExtractorNew
    /\ returned = NoCall
    /\ HarnessIdle

\* pytest_generate_tests when the cache holds a configuration: no file is read
pytest_generate_tests_cached(fixturenames) ==
    /\ "bot_config" \in DOMAIN cache
    /\ returned' = GenerateTests(fixturenames, LoadBotConfig(cache, << >>).value)
    /\ cache' = LoadBotConfig(cache, << >>).cache
    /\ CollectFrame

\* pytest_generate_tests when the cache is empty: the file is read
pytest_generate_tests_loading(fixturenames, file) ==
    /\ "bot_config" \notin DOMAIN cache
    /\ returned' = GenerateTests(fixturenames, LoadBotConfig(cache, file).value)
    /\ cache' = LoadBotConfig(cache, file).cache
    /\ CollectFrame

CollectCached == \E fx \in FixtureNames : pytest_generate_tests_cached(fx)

CollectLoading ==
    \E fx \in FixtureNames, file \in BotConfigFiles : pytest_generate_tests_loading(fx, file)

CollectNext ==
    \/ CollectCached
    \/ CollectLoading

SpecCollect == CollectInit /\ [][CollectNext]_vars


\* C9: for a loaded configuration whose filter yields nothing (no entry edge
\* of type 'match' for match_edge, no scenario with a 'buttons' block for
\* buttons_scenario), pytest_generate_tests registers exactly one case for
\* that family and the case is unconditionally skipped; never zero cases.
C9_PlaceholderWhenNothing ==
    (returned.call = "pytest_generate_tests" /\ "bot_config" \in DOMAIN cache) =>
        LET attrs == extract_bot_attributes(cache["bot_config"]) IN
        /\ ("match_edge" \in returned.fixturenames
               /\ extract_entry_edges_by_type(attrs, S_match) = << >>)
           => /\ "match_edge" \in DOMAIN returned.parametrized
              /\ Len(returned.parametrized["match_edge"]) = 1
              /\ returned.parametrized["match_edge"][1].skip
        /\ ("buttons_scenario" \in returned.fixturenames
               /\ SelectSeq(extract_scenarios(attrs), HasButtons) = << >>)
           => /\ "buttons_scenario" \in DOMAIN returned.parametrized
              /\ Len(returned.parametrized["buttons_scenario"]) = 1
              /\ returned.parametrized["buttons_scenario"][1].skip

\* positions where a maximal run of word characters begins
WordStarts(p) ==
    {i \in 1..Len(p) : IsWordChar(p[i]) /\ (i = 1 \/ ~IsWordChar(p[i - 1]))}

\* the position where the maximal run beginning at i ends
WordEnd(p, i) ==
    CHOOSE j \in i..Len(p) :
        /\ \A k \in i..j : IsWordChar(p[k])
        /\ j = Len(p) \/ ~IsWordChar(p[j + 1])

\* the words of p, left to right
WordsOf(p) ==
    LET Kth(k) == CHOOSE i \in WordStarts(p) :
                      Cardinality({j \in WordStarts(p) : j < i}) = k - 1
    IN [k \in 1..Cardinality(WordStarts(p)) |-> SubSeq(p, Kth(k), WordEnd(p, Kth(k)))]

\* the identifier the specification describes for pattern p at position i
ExpectedId(p, i) ==
    LET w == WordsOf(p)
        joined == IF Len(w) = 1 THEN w[1]
                  ELSE IF Len(w) = 2 THEN w[1] \o <<"_">> \o w[2]
                  ELSE w[1] \o <<"_">> \o w[2] \o <<"_">> \o w[3]
        cut == [k \in 1..(IF Len(joined) < 50 THEN Len(joined) ELSE 50) |-> joined[k]]
    IN IF Len(w) = 0 THEN <<"m", "a", "t", "c", "h", "_">> \o FormatInt(i) \o <<"_", "p", "a", "t", "t", "e", "r", "n">>
       ELSE <<"m", "a", "t", "c", "h", "_">> \o FormatInt(i) \o <<"_">> \o cut

DocumentedIds == <<<<"m", "a", "t", "c", "h", "_", "0", "_", "U043F", "U0440", "U0438", "U0432", "U0435", "U0442">>, <<"m", "a", "t", "c", "h", "_", "1", "_", "s", "t", "a", "r", "t">>, <<"m", "a", "t", "c", "h", "_", "2", "_", "U043F", "U043E", "U043C", "U043E", "U0449", "U044C", "_", "U0441", "U043E", "U0432", "U0435", "U0442">>>>

\* C10: the identifier of the match-edge case at position i is 'match_i_'
\* followed by the first up to three words of the pattern joined by '_' and
\* cut to 50 characters, 'match_i_pattern' when the pattern has no word; the
\* patterns 'привет', '/start', 'помощь совет' give match_0_привет,
\* match_1_start, match_2_помощь_совет.
C10_MatchCaseIds ==
    (returned.call = "pytest_generate_tests"
        /\ "match_edge" \in DOMAIN returned.parametrized) =>
        LET cases == returned.parametrized["match_edge"] IN
        /\ \A i \in 1..Len(cases) :
              ~cases[i].skip => cases[i].id = ExpectedId(cases[i].value.pattern, i - 1)
        /\ (Len(cases) = 3 /\ ~cases[1].skip
               /\ [i \in 1..3 |-> cases[i].value.pattern]
                      = <<PatPrivet, PatStart, PatHelpAdvice>>)
           => [i \in 1..3 |-> cases[i].id] = DocumentedIds

C10_Witness ==
    /\ returned.call = "pytest_generate_tests"
    /\ "match_edge" \in DOMAIN returned.parametrized
    /\ Len(returned.parametrized["match_edge"]) = 3
    /\ ~returned.parametrized["match_edge"][1].skip
    /\ [i \in 1..3 |-> returned.parametrized["match_edge"][i].value.pattern]
           = <<PatPrivet, PatStart, PatHelpAdvice>>
    /\ [i \in 1..3 |-> returned.parametrized["match_edge"][i].id] = DocumentedIds


\* the entry-edge dicts of scenario entry s of the raw attributes
RawEdges(attrs, s) == Get(Get(attrs, "scenarios", << >>)[s], "entry_edges", << >>)

\* the positions <<scenario, edge>> (from 1) of the raw edges of type 'match'
MatchPositions(attrs) ==
    UNION {{<<s, e>> : e \in {x \in 1..Len(RawEdges(attrs, s)) :
                                 /\ "type" \in DOMAIN RawEdges(attrs, s)[x]
                                 /\ RawEdges(attrs, s)[x].type = S_match}} :
              s \in 1..Len(Get(attrs, "scenarios", << >>))}

\* p comes before q in document order
Before(p, q) == p[1] < q[1] \/ (p[1] = q[1] /\ p[2] < q[2])

\* the i-th (from 1) position of the set P in document order
NthPosition(P, i) == CHOOSE p \in P : Cardinality({q \in P : Before(q, p)}) = i - 1

EdgePathOf(p) ==
    <<"s", "c", "e", "n", "a", "r", "i", "o", "s", "[">> \o FormatInt(p[1] - 1) \o <<"]", ".", "e", "n", "t", "r", "y", "_", "e", "d", "g", "e", "s", "[">> \o FormatInt(p[2] - 1) \o <<"]">>

ButtonsScenarios(attrs) ==
    {s \in 1..Len(Get(attrs, "scenarios", << >>)) :
        LET nodes == Get(Get(attrs, "scenarios", << >>)[s], "nodes", << >>) IN
        \E n \in 1..Len(nodes) :
            \E b \in 1..Len(Get(nodes[n], "blocks", << >>)) :
                /\ "type" \in DOMAIN nodes[n].blocks[b]
                /\ nodes[n].blocks[b].type = S_buttons}

\* C12: the buttons_scenario cases are exactly the scenarios with at least
\* one block of type 'buttons' in one of their own nodes: each once, in
\* document order, identified by its slug, and no other scenario.
C12_ButtonsScenarioCases ==
    (returned.call = "pytest_generate_tests" /\ returned.config # NoneDict
        /\ "buttons_scenario" \in DOMAIN returned.parametrized) =>
        LET attrs == extract_bot_attributes(returned.config)
            Q == ButtonsScenarios(attrs)
            cases == SelectSeq(returned.parametrized["buttons_scenario"],
                               LAMBDA c : ~c.skip)
        IN /\ Len(cases) = Cardinality(Q)
           /\ \A i \in 1..Len(cases) :
                 LET s == CHOOSE x \in Q : Cardinality({y \in Q : y < x}) = i - 1 IN
                 /\ cases[i].value.path = <<"s", "c", "e", "n", "a", "r", "i", "o", "s", "[">> \o FormatInt(s - 1) \o <<"]">>
                 /\ cases[i].id = cases[i].value.slug
                 /\ cases[i].id = ScenarioSlug(Get(attrs, "scenarios", << >>)[s])


\* the scenario entries of the mapping the extractor holds
RawScenarios == Get(config_attrs, "scenarios", << >>)

\* C13: the slug of the ScenarioInfo of every scenario entry is the entry's
\* `slug` field when present, otherwise its `name`, otherwise the empty
\* string.
C13_SlugFallback ==
    (returned.call = "extract_scenarios" /\ returned.raised = "none") =>
        /\ Len(returned.value) = Len(RawScenarios)
        /\ \A i \in 1..Len(RawScenarios) :
              returned.value[i].slug =
                  IF "slug" \in DOMAIN RawScenarios[i] THEN RawScenarios[i].slug
                  ELSE IF "name" \in DOMAIN RawScenarios[i] THEN RawScenarios[i].name
                  ELSE << >>

\* entries with a slug and a different name, with a name only, and with neither
C13_Witness ==
    /\ returned.call = "extract_scenarios"
    /\ returned.raised = "none"
    /\ \E i, j, k \in 1..Len(RawScenarios) :
          /\ "slug" \in DOMAIN RawScenarios[i]
          /\ "name" \in DOMAIN RawScenarios[i]
          /\ RawScenarios[i].slug # RawScenarios[i].name
          /\ returned.value[i].slug = RawScenarios[i].slug
          /\ "slug" \notin DOMAIN RawScenarios[j]
          /\ "name" \in DOMAIN RawScenarios[j]
          /\ returned.value[j].slug = RawScenarios[j].name
          /\ DOMAIN RawScenarios[k] \cap {"slug", "name"} = {}
          /\ returned.value[k].slug = << >>

ScenarioPathOf(s) == <<"s", "c", "e", "n", "a", "r", "i", "o", "s", "[">> \o FormatInt(s - 1) \o <<"]">>

\* C14: extract_scenarios returns one ScenarioInfo per scenario entry in
\* document order (path 'scenarios[i]'), whose entry_edges and nodes are
\* exactly the edges and nodes declared inside that entry, in document order,
\* and nothing of another scenario.
C14_OwnEdgesAndNodes ==
    (returned.call = "extract_scenarios" /\ returned.raised = "none") =>
        /\ Len(returned.value) = Len(RawScenarios)
        /\ \A i \in 1..Len(RawScenarios) :
              /\ returned.value[i].path = ScenarioPathOf(i)
              /\ [e \in 1..Len(returned.value[i].entry_edges) |->
                     returned.value[i].entry_edges[e].path]
                 = [e \in 1..Len(Get(RawScenarios[i], "entry_edges", << >>)) |->
                     ScenarioPathOf(i) \o <<".", "e", "n", "t", "r", "y", "_", "e", "d", "g", "e", "s", "[">> \o FormatInt(e - 1) \o <<"]">>]
              /\ [n \in 1..Len(returned.value[i].nodes) |->
                     returned.value[i].nodes[n].path]
                 = [n \in 1..Len(Get(RawScenarios[i], "nodes", << >>)) |->
                     ScenarioPathOf(i) \o <<".", "n", "o", "d", "e", "s", "[">> \o FormatInt(n - 1) \o <<"]">>]

\* the entry-edge dicts of the mapping, scenario by scenario
RawEdgeList ==
    Flatten([s \in 1..Len(RawScenarios) |-> Get(RawScenarios[s], "entry_edges", << >>)])

\* C15: pattern and target_node_id of every EntryEdgeInfo are never null:
\* they are the source edge's `value` and `target_node_id`, and the empty
\* string when the source edge does not supply them.
C15_NeverNull ==
    (returned.call = "extract_entry_edges" /\ returned.raised = "none") =>
        /\ Len(returned.value) = Len(RawEdgeList)
        /\ \A e \in 1..Len(RawEdgeList) :
              /\ returned.value[e].pattern # None
              /\ returned.value[e].target_node_id # None
              /\ returned.value[e].pattern
                    = (IF "value" \in DOMAIN RawEdgeList[e]
                       THEN RawEdgeList[e].value ELSE << >>)
              /\ returned.value[e].target_node_id
                    = (IF "target_node_id" \in DOMAIN RawEdgeList[e]
                       THEN RawEdgeList[e].target_node_id ELSE << >>)


(***************************************************************************)
(* bot_testing/config/extractor.py: lookups and id sets;                   *)
(* bot_testing/config/bot_analyzer.py: BotAnalyzer.get_summary;            *)
(* bot_testing/config/element_types.py: BotInfo                            *)
(***************************************************************************)
S_llm == <<"l", "l", "m">>
S_extend == <<"e", "x", "t", "e", "n", "d">>

\* variant for comparison: an entry without an id contributes None
get_all_scenario_ids_All(attrs) ==
    {Get(Scenarios(attrs)[s], "id", None) : s \in 1..Len(Scenarios(attrs))}

\* {s.get("id") for s in self.config_attrs.get("scenarios", []) if "id" in s}
get_all_scenario_ids(attrs) ==
    {Scenarios(attrs)[s]["id"] :
        s \in {x \in 1..Len(Scenarios(attrs)) : "id" \in DOMAIN Scenarios(attrs)[x]}}

\* variant for comparison: the last matching element is returned
FirstOrNone_Last(matching) ==
    IF matching = << >> THEN NoneDict ELSE matching[Len(matching)]

\* for x in xs: if <test>: return x ... return None
FirstOrNone(matching) == IF matching = << >> THEN NoneDict ELSE Head(matching)

find_block_by_id(attrs, block_id) ==
    FirstOrNone(SelectSeq(extract_blocks(attrs), LAMBDA b : b.block_id = block_id))

find_node_by_id(attrs, node_id) ==
    FirstOrNone(SelectSeq(extract_nodes(attrs), LAMBDA n : n.node_id = node_id))

find_scenario_by_slug(attrs, slug) ==
    FirstOrNone(SelectSeq(extract_scenarios(attrs), LAMBDA s : s.slug = slug))

\* variant for comparison: the call consumes the scenarios it walks
extract_blocks_call_Consuming(attrs) ==
    [value |-> extract_blocks(attrs), attrs |-> [k \in DOMAIN attrs \ {"scenarios"} |-> attrs[k]]]

\* one call of extract_blocks: what it returns and the mapping it leaves
extract_blocks_call(attrs) == [value |-> extract_blocks(attrs), attrs |-> attrs]

\* blocks_by_type / edges_by_type: setdefault(type, 0) then += 1
CountByType(infos) ==
    [t \in {infos[i].type : i \in 1..Len(infos)} |->
        Cardinality({i \in 1..Len(infos) : infos[i].type = t})]

\* the llm_blocks descriptors
LlmBlocks(attrs) ==
    LET llm == extract_blocks_by_type(attrs, S_llm) IN
    [i \in 1..Len(llm) |->
        [scenario |-> llm[i].scenario_slug,
         model |-> Get(Get(llm[i].data, "model", << >>), "model_name", S_unknown),
         result_variable |-> Get(llm[i].data, "result_variable_name", None)]]

\* BotAnalyzer.get_summary: the BotInfo built from the extractor
get_summary(attrs) ==
    [bot_name |-> Get(attrs, "bot_name", None),
     bot_id |-> Get(attrs, "bot_id", None),
     version_id |-> Get(attrs, "version_id", None),
     no_match_stub_answer |-> Get(attrs, "no_match_stub_answer", None),
     request_ttl_in_seconds |-> Get(attrs, "request_ttl_in_seconds", None),
     scenarios |-> extract_scenarios(attrs),
     blocks_by_type |-> CountByType(extract_blocks(attrs)),
     edges_by_type |-> CountByType(extract_entry_edges(attrs)),
     llm_blocks |-> LlmBlocks(attrs),
     extend_blocks_count |-> Len(extract_blocks_by_type(attrs, S_extend)),
     button_blocks_count |-> Len(extract_blocks_by_type(attrs, S_buttons))]

\* sum(d.values())
RECURSIVE SumValues(_)
SumValues(d) ==
    IF DOMAIN d = {} THEN 0
    ELSE LET k == CHOOSE x \in DOMAIN d : TRUE
         IN d[k] + SumValues([x \in DOMAIN d \ {k} |-> d[x]])

\* sum(len(s.nodes) for s in self.scenarios)
RECURSIVE SumNodes(_)
SumNodes(scenarios) ==
    IF scenarios = << >> THEN 0
    ELSE Len(Head(scenarios).nodes) + SumNodes(Tail(scenarios))

\* the properties of BotInfo
scenarios_count(bot_info) == Len(bot_info.scenarios)
nodes_count(bot_info) == SumNodes(bot_info.scenarios)
blocks_count(bot_info) == SumValues(bot_info.blocks_by_type)
edges_count(bot_info) == SumValues(bot_info.edges_by_type)

(***************************************************************************)
(* The callers of the lookups and of the summary                           *)
(***************************************************************************)
MaxLookupElements == 3

\* configurations beyond the budget: two blocks with one id in one node, an
\* llm and an extend block, an envelope inside an envelope
SpecialConfigs ==
    {[scenarios |-> <<[slug |-> <<"s", "1">>,
                       nodes |-> <<[id |-> <<"n", "1">>,
                                    blocks |-> <<[type |-> S_buttons, id |-> <<"b", "1">>],
                                                 [type |-> S_answer, id |-> <<"b", "1">>]>>]>>]>>],
     [bot_name |-> <<"B">>,
      scenarios |-> <<[slug |-> <<"s", "1">>,
                       nodes |-> <<[id |-> <<"n", "1">>,
                                    blocks |-> <<[type |-> S_llm,
                                                  model |-> [model_name |-> <<"m">>],
                                                  result_variable_name |-> <<"r">>],
                                                 [type |-> S_extend]>>]>>]>>],
     [data |-> [attributes |-> [data |-> [attributes |-> [bot_name |-> <<"B">>]]]]]}

BlockIdArgs == {<<"b", "1">>, <<"b", "l", "o", "c", "k", "_", "0">>, <<"z", "z">>}
NodeIdArgs == {<<"n", "1">>, << >>, <<"z", "z">>}
SlugArgs == {<<"s", "1">>, << >>, <<"z", "z">>}

\* the mappings extract_bot_attributes is called with
EnvelopeArgs ==
    {<< >>,
     [bot_name |-> <<"B">>],
     [data |-> [attributes |-> [bot_name |-> <<"B">>]]],
     [data |-> [attributes |-> [data |-> [attributes |-> [bot_name |-> <<"B">>]]]]],
     [data |-> [attributes |-> [scenarios |-> <<[slug |-> <<"s", "1">>]>>]]]}

LookupInit ==
    /\ ExtractorNew
    /\ ProbeIdle
    /\ TrackerNew
    /\ CacheEmpty
    /\ returned = NoCall
    /\ HarnessIdle

\* a method with an argument that reads self.config_attrs.get(...)
LookupCall(name, arg, value) ==
    /\ returned' = IF config_attrs = NoneDict
                   THEN [call |-> name, arg |-> arg, raised |-> "AttributeError"]
                   ELSE [call |-> name, arg |-> arg, raised |-> "none", value |-> value]
    /\ UNCHANGED config_attrs
    /\ ExtractorFrame

SetLookupConfig ==
    /\ config_attrs = NoneDict
    /\ \E config \in ExtractorConfigs(MaxLookupElements) \cup SpecialConfigs :
          set_config_attr(config)

FindBlockById ==
    \E id \in BlockIdArgs :
        LookupCall("find_block_by_id", id, find_block_by_id(config_attrs, id))

FindNodeById ==
    \E id \in NodeIdArgs :
        LookupCall("find_node_by_id", id, find_node_by_id(config_attrs, id))

FindScenarioBySlug ==
    \E slug \in SlugArgs :
        LookupCall("find_scenario_by_slug", slug, find_scenario_by_slug(config_attrs, slug))

GetAllScenarioIds ==
    ExtractorCall("get_all_scenario_ids", get_all_scenario_ids(config_attrs))

\* BotAnalyzer.get_summary() on the analyzer's extractor
GetBotSummary == ExtractorCall("get_summary", get_summary(config_attrs))

\* two calls of extract_blocks() one after the other, the second on the
\* mapping the first one left
ExtractBlocksTwice ==
    /\ returned' =
          IF config_attrs = NoneDict
          THEN [call |-> "extract_blocks_twice", raised |-> "AttributeError"]
          ELSE [call |-> "extract_blocks_twice", raised |-> "none",
                first |-> extract_blocks_call(config_attrs).value,
                second |-> extract_blocks_call(extract_blocks_call(config_attrs).attrs).value,
                attrs |-> extract_blocks_call(extract_blocks_call(config_attrs).attrs).attrs]
    /\ UNCHANGED config_attrs
    /\ ExtractorFrame

\* ElementExtractor.extract_bot_attributes(config): a static method
ExtractBotAttributes ==
    /\ \E config \in EnvelopeArgs :
          returned' = [call |-> "extract_bot_attributes", raised |-> "none",
                       config |-> config, value |-> extract_bot_attributes(config),
                       config_after |-> config]
    /\ UNCHANGED config_attrs
    /\ ExtractorFrame

LookupNext ==
    \/ SetLookupConfig
    \/ FindBlockById
    \/ FindNodeById
    \/ FindScenarioBySlug
    \/ GetAllScenarioIds
    \/ GetBotSummary
    \/ ExtractBlocksTwice
    \/ ExtractBotAttributes

SpecLookup == LookupInit /\ [][LookupNext]_vars

(***************************************************************************)
(* Claims about the lookups and the summary (checked under SpecLookup)     *)
(***************************************************************************)

\* the value a first-match lookup over xs must give: the element at the
\* least matching position, None when no position matches
IsFirstMatch(value, xs, M) ==
    IF M = {} THEN value = NoneDict
    ELSE value = xs[CHOOSE i \in M : \A j \in M : i <= j]

\* C16: on an extractor with a configuration set, find_block_by_id,
\* find_node_by_id and find_scenario_by_slug return the first element in
\* extraction order whose block_id / node_id / slug equals the argument, and
\* None, without raising, when no element matches.
C16_FirstMatchOrNone ==
    (returned.call \in {"find_block_by_id", "find_node_by_id", "find_scenario_by_slug"}
        /\ config_attrs # NoneDict) =>
        /\ returned.raised = "none"
        /\ returned.call = "find_block_by_id" =>
              LET xs == extract_blocks(config_attrs) IN
              IsFirstMatch(returned.value, xs,
                           {i \in 1..Len(xs) : xs[i].block_id = returned.arg})
        /\ returned.call = "find_node_by_id" =>
              LET xs == extract_nodes(config_attrs) IN
              IsFirstMatch(returned.value, xs,
                           {i \in 1..Len(xs) : xs[i].node_id = returned.arg})
        /\ returned.call = "find_scenario_by_slug" =>
              LET xs == extract_scenarios(config_attrs) IN
              IsFirstMatch(returned.value, xs,
                           {i \in 1..Len(xs) : xs[i].slug = returned.arg})

\* two different blocks carry the id looked up and the first one is returned
C16_Witness ==
    /\ returned.call = "find_block_by_id"
    /\ returned.raised = "none"
    /\ LET xs == extract_blocks(config_attrs) IN
       \E i, j \in 1..Len(xs) :
          /\ i < j
          /\ xs[i].block_id = returned.arg
          /\ xs[j].block_id = returned.arg
          /\ xs[i] # xs[j]
          /\ returned.value = xs[i]

\* C17: get_all_scenario_ids() is the set of `id` values of exactly the
\* scenario entries that have an `id` field; an entry without one adds
\* nothing, although extract_scenarios() returns a ScenarioInfo for it.
C17_IdsOfEntriesWithId ==
    (returned.call = "get_all_scenario_ids" /\ returned.raised = "none") =>
        /\ \A s \in 1..Len(RawScenarios) :
              "id" \in DOMAIN RawScenarios[s] => RawScenarios[s].id \in returned.value
        /\ \A v \in returned.value :
              \E s \in 1..Len(RawScenarios) :
                  "id" \in DOMAIN RawScenarios[s] /\ RawScenarios[s].id = v
        /\ Len(extract_scenarios(config_attrs)) = Len(RawScenarios)

\* one entry has an id and another has none
C17_Witness ==
    /\ returned.call = "get_all_scenario_ids"
    /\ returned.raised = "none"
    /\ Cardinality(returned.value) = 1
    /\ \E s, t \in 1..Len(RawScenarios) :
          "id" \in DOMAIN RawScenarios[s] /\ "id" \notin DOMAIN RawScenarios[t]

C19_UnwrapIdempotent ==
    returned.call = "extract_bot_attributes" =>
        /\ extract_bot_attributes(returned.value) = returned.value
        /\ returned.config_after = returned.config

\* the node entries <<scenario, node>> of the mapping
RawNodePositions ==
    UNION {{<<s, n>> : n \in 1..Len(Get(RawScenarios[s], "nodes", << >>))} :
              s \in 1..Len(RawScenarios)}

\* the block entries <<scenario, node, block>> of the mapping
RawBlockPositions ==
    UNION {{<<p[1], p[2], b>> :
               b \in 1..Len(Get(RawScenarios[p[1]].nodes[p[2]], "blocks", << >>))} :
              p \in RawNodePositions}

\* the entry-edge entries <<scenario, edge>> of the mapping
RawEdgePositions ==
    UNION {{<<s, e>> : e \in 1..Len(Get(RawScenarios[s], "entry_edges", << >>))} :
              s \in 1..Len(RawScenarios)}

\* C20: in the BotInfo of get_summary(), scenarios_count, nodes_count,
\* blocks_count and edges_count equal the numbers of scenario, node, block
\* and entry-edge entries of the configuration.
C20_CountsAgree ==
    (returned.call = "get_summary" /\ returned.raised = "none") =>
        /\ scenarios_count(returned.value) = Len(RawScenarios)
        /\ nodes_count(returned.value) = Cardinality(RawNodePositions)
        /\ blocks_count(returned.value) = Cardinality(RawBlockPositions)
        /\ edges_count(returned.value) = Cardinality(RawEdgePositions)


(***************************************************************************)
(* Loading a configuration in a test session: BotAnalyzer.load_and_validate,*)
(* conftest's _load_bot_config, the session fixtures element_extractor and *)
(* bot_config, and the structural tests that use them                      *)
(***************************************************************************)

MaxCalls == 3

\* contents of the configuration file
ConfLlm ==
    [scenarios |-> <<[slug |-> <<"s", "1">>,
                      nodes |-> <<[id |-> <<"n", "1">>,
                                   blocks |-> <<[type |-> S_llm]>>]>>]>>]

ConfNamed == [bot_name |-> <<"B">>, scenarios |-> << >>]

\* the configurations the analyzer's schema accepts; {} is not one of them
SchemaValid == {ConfLlm, ConfNamed}

\* ConfigValidator.validate(config): is_valid
validate(config) == config \in SchemaValid

\* what --bot-config (or BotAnalyzer.config_path) names when a call is made
SessionFiles ==
    {[option |-> FALSE, exists |-> FALSE, json |-> FALSE, config |-> << >>],
     [option |-> TRUE, exists |-> FALSE, json |-> FALSE, config |-> << >>],
     [option |-> TRUE, exists |-> TRUE, json |-> FALSE, config |-> << >>]}
    \cup {[option |-> TRUE, exists |-> TRUE, json |-> TRUE, config |-> c] :
             c \in {ConfLlm, ConfNamed, << >>}}

\* BotAnalyzer.load_and_validate on analyzer a: the analyzer afterwards and
\* the exception that left the call
load_and_validate(a, file) ==
    IF load(file).raised # "none"
    THEN [analyzer |-> a, raised |-> load(file).raised]
    ELSE IF validate(load(file).value)
    THEN [analyzer |->
              [config |-> load(file).value,
               extractor |-> extract_bot_attributes(load(file).value),
               bot_info |-> get_summary(extract_bot_attributes(load(file).value)),
               is_loaded |-> TRUE],
          raised |-> "none"]
    ELSE [analyzer |-> [a EXCEPT !.config = load(file).value], raised |-> "none"]

\* _load_bot_config opens the file when the cache misses and the option is set
ReadsFile(c, file) == "bot_config" \notin DOMAIN c /\ file.option

\* the bot_config fixture (with bot_config_path): the exception that leaves
\* it, or the value it returns
bot_config(file) ==
    IF ~file.option THEN [raised |-> "Failed"]
    ELSE IF load(file).raised = "FileNotFoundError" THEN [raised |-> "Skipped"]
    ELSE IF load(file).raised # "none" THEN [raised |-> load(file).raised]
    ELSE [raised |-> "none", value |-> extract_bot_attributes(load(file).value)]

\* the session-scoped fixture has been set up
FixtureDone(name) == \E i \in 1..Len(history) : history[i].call = name

SessionInit ==
    /\ ExtractorNew
    /\ CacheEmpty
    /\ ProbeIdle
    /\ TrackerNew
    /\ returned = NoCall
    /\ HarnessIdle

SessionCall(r) ==
    /\ Len(history) < MaxCalls
    /\ returned' = r
    /\ history' = Append(history, r)
    /\ UNCHANGED <<probeVars, trackerVars, current_session, uuids, pipeline>>

AnalyzerLoadAndValidate ==
    \E file \in {f \in SessionFiles : f.option} :
        /\ SessionCall([call |-> "load_and_validate", file |-> file,
                        raised |-> load_and_validate(analyzer, file).raised])
        /\ analyzer' = load_and_validate(analyzer, file).analyzer
        /\ UNCHANGED <<config_attrs, cache>>

LoadBotConfigCall ==
    \E file \in SessionFiles :
        /\ SessionCall([call |-> "_load_bot_config", file |-> file, raised |-> "none",
                        read |-> ReadsFile(cache, file),
                        value |-> LoadBotConfig(cache, file).value])
        /\ cache' = LoadBotConfig(cache, file).cache
        /\ UNCHANGED <<config_attrs, analyzer>>

\* pytest sets a session fixture up once, before the first test that asks for it
SetupBotConfig ==
    /\ ~FixtureDone("bot_config")
    /\ \E file \in SessionFiles :
          /\ SessionCall([call |-> "bot_config", file |-> file] @@ bot_config(file))
          /\ config_attrs' = IF bot_config(file).raised = "none"
                             THEN bot_config(file).value ELSE config_attrs
    /\ UNCHANGED <<cache, analyzer>>

\* test_llm_blocks_have_system_and_user_message(element_extractor)
TestLlmBlocks ==
    /\ SessionCall(IF config_attrs = NoneDict
                   THEN [call |-> "test_llm_blocks", raised |-> "AttributeError"]
                   ELSE [call |-> "test_llm_blocks", raised |-> "none",
                         value |-> extract_blocks_by_type(config_attrs, S_llm)])
    /\ UNCHANGED <<config_attrs, cache, analyzer>>

\* test_all_button_targets_exist(bot_config, element_extractor): runs once the
\* bot_config fixture has returned
TestButtonTargets ==
    /\ \E i \in 1..Len(history) :
          history[i].call = "bot_config" /\ history[i].raised = "none"
    /\ SessionCall([call |-> "test_all_button_targets_exist", raised |-> "none",
                    value |-> extract_blocks(config_attrs)])
    /\ UNCHANGED <<config_attrs, cache, analyzer>>

SessionNext ==
    \/ AnalyzerLoadAndValidate
    \/ LoadBotConfigCall
    \/ SetupBotConfig
    \/ TestLlmBlocks
    \/ TestButtonTargets

SpecSession == SessionInit /\ [][SessionNext]_vars

(***************************************************************************)
(* Claims about loading (checked under SpecSession)                        *)
(***************************************************************************)

\* the operations that load a configuration through ConfigLoader.load
LoadingCalls == {"load_and_validate", "_load_bot_config", "bot_config"}

\* call h went as far as ConfigLoader.load and the load failed
LoadFailedIn(h) ==
    /\ h.call \in LoadingCalls
    /\ h.file.option
    /\ h.call = "_load_bot_config" => h.read
    /\ load(h.file).raised # "none"

\* C21: ConfigLoader.load raises FileNotFoundError for an absent file and
\* ValueError for a file that is not JSON, and every operation that loads
\* through it (load_and_validate, _load_bot_config, the bot_config fixture)
\* ends with an exception, never with a normal return, when the load failed
C21_LoadFailureSurfaces ==
    /\ \A file \in SessionFiles :
          /\ ~file.exists => load(file).raised = "FileNotFoundError"
          /\ file.exists /\ ~file.json => load(file).raised = "ValueError"
    /\ \A i \in 1..Len(history) :
          LoadFailedIn(history[i]) => history[i].raised # "none"

\* C24: the analyzer is marked loaded only if the configuration held in
\* self.config passed validation, and a call whose validation fails leaves
\* the analyzer not loaded, without summary and without extractor mapping
C24_LoadedOnlyIfValid ==
    /\ analyzer.is_loaded => validate(analyzer.config)
    /\ (/\ returned.call = "load_and_validate"
        /\ returned.raised = "none"
        /\ ~validate(returned.file.config))
       => (/\ ~analyzer.is_loaded
           /\ analyzer.bot_info = NoneDict
           /\ analyzer.extractor = NoneDict)

\* the _load_bot_config calls before call j that returned a configuration
ReturnedConfigBefore(j) ==
    {i \in 1..(j - 1) :
        history[i].call = "_load_bot_config" /\ history[i].value # NoneDict}

C28_ExtractorConfiguredInTests ==
    \A i \in 1..Len(history) :
        history[i].call \in {"test_llm_blocks", "test_all_button_targets_exist"}
            => history[i].raised # "AttributeError"

(***************************************************************************)
(* The pipeline: tests/pipeline.py, run_full_pipeline                      *)
(***************************************************************************)

\* load_and_analyze_bot(config_path, schema_path): success
load_and_analyze_bot(file, schema_exists) ==
    IF ~file.exists THEN FALSE
    ELSE IF ~schema_exists THEN FALSE
    ELSE IF load_and_validate(BotAnalyzerNew, file).raised # "none" THEN FALSE
    ELSE load_and_validate(BotAnalyzerNew, file).analyzer.is_loaded

\* variant for comparison: the pipeline goes on whatever a step returned
Continues_Always(outcome) == TRUE

\* `if not <step>(...): return False`
Continues(outcome) == outcome = "passed"

PipelineFrame ==
    UNCHANGED <<probeVars, trackerVars, config_attrs, cache, analyzer,
                current_session, uuids, history>>

PipelineInit ==
    /\ HarnessIdle
    /\ ExtractorNew
    /\ CacheEmpty
    /\ ProbeIdle
    /\ TrackerNew
    /\ returned = NoCall

\* the step that ran and how it ended
Ran(step, outcome) == [step |-> step, outcome |-> outcome]

Return(value) == returned' = [call |-> "run_full_pipeline", raised |-> "none", value |-> value]

\* remove_bot_from_platform is called `if not skip_import and bot_id is not None`
Cleanup(p) == ~p.skip_import /\ p.bot_id # None

\* run_full_pipeline(config_path, schema_path, skip_structural, skip_import,
\* skip_behavioral) is entered
CallRunFullPipeline ==
    /\ pipeline.pc = "idle"
    /\ \E file \in {f \in SessionFiles : f.option}, schema_exists \in BOOLEAN,
          ss \in BOOLEAN, si \in BOOLEAN, sb \in BOOLEAN :
          pipeline' = [pc |-> "step1", file |-> file, schema_exists |-> schema_exists,
                       skip_structural |-> ss, skip_import |-> si,
                       skip_behavioral |-> sb, log |-> << >>, bot_id |-> None,
                       removed |-> FALSE]
    /\ UNCHANGED returned
    /\ PipelineFrame

\* Step 1: success, analyzer = load_and_analyze_bot(config_path, schema_path)
AnalyzeConfig ==
    /\ pipeline.pc = "step1"
    /\ LET success == load_and_analyze_bot(pipeline.file, pipeline.schema_exists)
           outcome == IF success THEN "passed" ELSE "failed"
       IN /\ pipeline' = [pipeline EXCEPT !.log = Append(@, Ran("analysis", outcome)),
                                          !.pc = IF Continues(outcome)
                                                 THEN "step2" ELSE "returned"]
          /\ IF Continues(outcome) THEN UNCHANGED returned ELSE Return(FALSE)
    /\ PipelineFrame

\* Step 2: run_pytest_structural, outside any try: subprocess.run may raise
StructuralTests ==
    /\ pipeline.pc = "step2"
    /\ IF pipeline.skip_structural
       THEN pipeline' = [pipeline EXCEPT !.pc = "step3"] /\ UNCHANGED returned
       ELSE \E outcome \in {"passed", "failed", "raised"} :
               /\ pipeline' =
                     [pipeline EXCEPT !.log = Append(@, Ran("structural", outcome)),
                                      !.pc = IF outcome = "raised" THEN "raised"
                                             ELSE IF Continues(outcome) THEN "step3"
                                             ELSE "returned"]
               /\ IF outcome = "raised"
                  THEN returned' = [call |-> "run_full_pipeline", raised |-> "OSError"]
                  ELSE IF Continues(outcome) THEN UNCHANGED returned ELSE Return(FALSE)
    /\ PipelineFrame

\* Step 3: import_bot_on_platform returns None or (bot_id, current_version_id)
ImportBot ==
    /\ pipeline.pc = "step3"
    /\ IF pipeline.skip_import
       THEN pipeline' = [pipeline EXCEPT !.pc = "step4"] /\ UNCHANGED returned
       ELSE \E outcome \in {"passed", "failed"} :
               /\ pipeline' =
                     [pipeline EXCEPT !.log = Append(@, Ran("import", outcome)),
                                      !.bot_id = IF outcome = "passed" THEN <<"7">> ELSE None,
                                      !.pc = IF Continues(outcome) THEN "step4"
                                             ELSE "returned"]
               /\ IF Continues(outcome) THEN UNCHANGED returned ELSE Return(FALSE)
    /\ PipelineFrame

\* Step 4: run_pytest_behavioral inside try / except Exception, with the
\* cleanup of the imported bot when it fails or raises
BehavioralTests ==
    /\ pipeline.pc = "step4"
    /\ IF pipeline.skip_behavioral
       THEN pipeline' = [pipeline EXCEPT !.pc = "returned"] /\ Return(TRUE)
       ELSE \E outcome \in {"passed", "failed", "raised"} :
               /\ pipeline' =
                     [pipeline EXCEPT !.log = Append(@, Ran("behavioural", outcome)),
                                      !.removed = outcome # "passed" /\ Cleanup(pipeline),
                                      !.pc = "returned"]
               /\ Return(outcome = "passed")
    /\ PipelineFrame

PipelineNext ==
    \/ CallRunFullPipeline
    \/ AnalyzeConfig
    \/ StructuralTests
    \/ ImportBot
    \/ BehavioralTests

SpecPipeline == PipelineInit /\ [][PipelineNext]_vars

(***************************************************************************)
(* Claims about the pipeline (checked under SpecPipeline)                  *)
(***************************************************************************)

StepOrder == [analysis |-> 1, structural |-> 2, import |-> 3, behavioural |-> 4]

PipelineLog == IF pipeline.pc = "idle" THEN << >> ELSE pipeline.log

\* the steps the arguments do not skip
NotSkipped ==
    {"analysis"}
    \cup (IF pipeline.skip_structural THEN {} ELSE {"structural"})
    \cup (IF pipeline.skip_import THEN {} ELSE {"import"})
    \cup (IF pipeline.skip_behavioral THEN {} ELSE {"behavioural"})

\* C22: run_full_pipeline runs its steps in the order analysis, structural
\* tests, platform import, behavioural tests; no step starts after an
\* executed step failed; and it returns True exactly when every executed
\* step passed (then every step that was not skipped has been executed)
C22_PipelineOrderAndResult ==
    /\ \A i, j \in 1..Len(PipelineLog) :
          i < j => /\ StepOrder[PipelineLog[i].step] < StepOrder[PipelineLog[j].step]
                   /\ PipelineLog[i].outcome = "passed"
    /\ (returned.call = "run_full_pipeline" /\ returned.raised = "none") =>
          /\ returned.value = (\A i \in 1..Len(PipelineLog) : PipelineLog[i].outcome = "passed")
          /\ returned.value => {PipelineLog[i].step : i \in 1..Len(PipelineLog)} = NotSkipped

\* all four steps ran and the pipeline returned True
C22_Witness ==
    /\ pipeline.pc = "returned"
    /\ Len(PipelineLog) = 4
    /\ returned = [call |-> "run_full_pipeline", raised |-> "none", value |-> TRUE]

(***************************************************************************)
(* Sessions: bot_testing/execution/client.py, BotTestClient                *)
(***************************************************************************)

MaxSends == 4

\* str(uuid.uuid4()): the n-th identifier drawn; every draw is a new one
Uuid(n) == <<"uuid", n>>

\* variant for comparison: a session starts only when the caller asks
StartsSession_OnlyOnRequest(session, new_session) == new_session

\* `if new_session or not self.current_session`
StartsSession(session, new_session) == new_session \/ session = None

ClientInit ==
    /\ HarnessIdle
    /\ ExtractorNew
    /\ CacheEmpty
    /\ ProbeIdle
    /\ TrackerNew
    /\ returned = NoCall

\* BotTestClient.send_message(message, new_session), called as `name`: the
\* session is settled before the handler is tried, and a failure of the
\* handler leaves the call as RuntimeError
send_message(name, new_session, raised) ==
    /\ Len(history) < MaxSends
    /\ current_session' = IF StartsSession(current_session, new_session)
                          THEN Uuid(uuids + 1) ELSE current_session
    /\ uuids' = IF StartsSession(current_session, new_session) THEN uuids + 1 ELSE uuids
    /\ returned' = [call |-> name, new_session |-> new_session,
                    session_id |-> current_session', raised |-> raised]
    /\ history' = Append(history, returned')
    /\ UNCHANGED <<probeVars, trackerVars, config_attrs, cache, analyzer, pipeline>>

SendMessage ==
    \E new_session \in BOOLEAN, raised \in {"none", "RuntimeError"} :
        send_message("send_message", new_session, raised)

\* click_button(button_title): return await self.send_message(button_title)
ClickButton ==
    \E raised \in {"none", "RuntimeError"} : send_message("click_button", FALSE, raised)

ClientNext ==
    \/ SendMessage
    \/ ClickButton

SpecClient == ClientInit /\ [][ClientNext]_vars

(***************************************************************************)
(* Claims about sessions (checked under SpecClient)                        *)
(***************************************************************************)

\* C23: over any sequence of send_message and click_button calls, a call
\* with new_session=True or made while no session exists uses a newly
\* generated session id, every other call sends the id of the call before
\* it, and click_button never starts a session when one exists
C23_SessionIds ==
    \A j \in 1..Len(history) :
        /\ history[j].session_id # None
        /\ IF history[j].new_session \/ j = 1
           THEN \A i \in 1..(j - 1) : history[i].session_id # history[j].session_id
           ELSE history[j].session_id = history[j - 1].session_id
        /\ (history[j].call = "click_button" /\ j > 1)
              => history[j].session_id = history[j - 1].session_id

\* a session is started, a click and a plain message stay in it although
\* the click failed, and new_session=True leaves it
C23_Witness ==
    /\ Len(history) = 4
    /\ history[1].call = "send_message" /\ ~history[1].new_session
    /\ history[2].call = "click_button" /\ history[2].raised = "RuntimeError"
    /\ history[3].call = "send_message" /\ ~history[3].new_session
    /\ history[3].session_id = history[1].session_id
    /\ history[4].new_session /\ history[4].session_id # history[1].session_id

(***************************************************************************)
(* One extractor, configured again and again                               *)
(***************************************************************************)

MaxSets == 3

ConfEdges ==
    [scenarios |-> <<[slug |-> <<"s", "2">>,
                      entry_edges |-> <<[type |-> S_match, value |-> <<"h", "i">>]>>,
                      nodes |-> <<[id |-> <<"n", "2">>,
                                   blocks |-> <<[type |-> S_buttons, id |-> <<"b", "1">>]>>]>>]>>]

\* two nodes with different string ids and a node without id
ConfThreeNodes ==
    [scenarios |-> <<[slug |-> <<"s", "3">>,
                      nodes |-> <<[id |-> <<"n", "1">>, blocks |-> <<[type |-> S_answer]>>],
                                  [id |-> <<"n", "2">>, blocks |-> <<[type |-> S_answer]>>],
                                  [blocks |-> <<[type |-> S_buttons]>>]>>]>>]

\* a node whose id is null and a node whose id is the string "None"
ConfNullId ==
    [scenarios |-> <<[slug |-> <<"s", "4">>,
                      nodes |-> <<[id |-> None, blocks |-> <<[type |-> S_answer]>>],
                                  [id |-> <<"N", "o", "n", "e">>,
                                   blocks |-> <<[type |-> S_buttons]>>]>>]>>]

ReconfigureConfigs ==
    {ConfLlm, ConfNamed, ConfEdges, ConfThreeNodes, ConfNullId, << >>,
     [data |-> [attributes |-> ConfLlm]]}

ExtractionMethods ==
    {"extract_blocks", "extract_blocks_by_type", "extract_entry_edges",
     "extract_entry_edges_by_type", "extract_nodes", "extract_scenarios",
     "get_all_scenario_ids"}

\* what the method returns on an extractor whose config_attrs is attrs
Extraction(method, attrs) ==
    CASE method = "extract_blocks" -> extract_blocks(attrs)
      [] method = "extract_blocks_by_type" -> extract_blocks_by_type(attrs, S_llm)
      [] method = "extract_entry_edges" -> extract_entry_edges(attrs)
      [] method = "extract_entry_edges_by_type" -> extract_entry_edges_by_type(attrs, S_match)
      [] method = "extract_nodes" -> extract_nodes(attrs)
      [] method = "extract_scenarios" -> extract_scenarios(attrs)
      [] method = "get_all_scenario_ids" -> get_all_scenario_ids(attrs)

\* variant for comparison: the first configuration stays
AttrsAfterSet_KeepFirst(attrs, config) ==
    IF attrs = NoneDict THEN extract_bot_attributes(config) ELSE attrs

\* self.config_attrs after set_config_attr(config)
AttrsAfterSet(attrs, config) == extract_bot_attributes(config)

ReconfigureInit ==
    /\ ExtractorNew
    /\ HarnessIdle
    /\ CacheEmpty
    /\ ProbeIdle
    /\ TrackerNew
    /\ returned = NoCall

ReconfigureFrame ==
    UNCHANGED <<probeVars, trackerVars, cache, analyzer, current_session, uuids, pipeline>>

\* set_config_attr(config), noted in the history
SetConfig ==
    /\ Len(history) < MaxSets
    /\ \E config \in ReconfigureConfigs :
          /\ config_attrs' = AttrsAfterSet(config_attrs, config)
          /\ returned' = [call |-> "set_config_attr", config |-> config]
          /\ history' = Append(history, returned')
    /\ ReconfigureFrame

\* one of the extraction methods is called
Extract ==
    /\ \E method \in ExtractionMethods :
          returned' = IF config_attrs = NoneDict
                      THEN [call |-> method, raised |-> "AttributeError"]
                      ELSE [call |-> method, raised |-> "none",
                            value |-> Extraction(method, config_attrs)]
    /\ UNCHANGED <<config_attrs, history>>
    /\ ReconfigureFrame

ReconfigureNext ==
    \/ SetConfig
    \/ Extract

SpecReconfigure == ReconfigureInit /\ [][ReconfigureNext]_vars

\* the configuration set last
LastSet == history[Len(history)].config

\* C25: after any interleaving of set_config_attr and extraction calls, an
\* extraction method returns what a newly constructed extractor given the
\* configuration set last returns (and raises like a new extractor while
\* none was set); nothing of an earlier configuration or call is kept
C25_NeverStale ==
    returned.call \in ExtractionMethods =>
        IF history = << >>
        THEN returned.raised = "AttributeError"
        ELSE /\ returned.raised = "none"
             /\ returned.value = Extraction(returned.call, extract_bot_attributes(LastSet))

\* three configurations were set; extract_blocks returns the blocks of the
\* third, which are not those of the first
C25_Witness ==
    /\ Len(history) = 3
    /\ history[1].config = ConfLlm /\ history[2].config = ConfNamed
    /\ history[3].config = ConfEdges
    /\ returned.call = "extract_blocks"
    /\ returned.value = extract_blocks(ConfEdges)
    /\ returned.value # extract_blocks(ConfLlm)

(***************************************************************************)
(* Running the generated cases: tests/test_entry_edges.py                  *)
(***************************************************************************)

\* the configuration under test: two match edges, which become the
\* match_edge parameters, and an event edge
RunConfig ==
    [scenarios |-> <<[slug |-> <<"s", "2">>,
                      entry_edges |-> <<[type |-> S_match, value |-> <<"h", "i">>],
                                        [type |-> S_match, value |-> <<"^", "a", "$">>],
                                        [type |-> S_event, value |-> <<"i", "n", "i", "t">>]>>]>>]

RunInit ==
    /\ TrackerNew
    /\ HarnessIdle
    /\ ExtractorNew
    /\ CacheEmpty
    /\ ProbeIdle
    /\ returned = NoCall

\* test_match_edge_activates(bot_client, match_edge, bot_config_extractor)
\* for a generated edge: the probe message is sent in a new session and the
\* response is asserted; the test holds no tracker and makes no mark
test_match_edge_activates(match_edge, response) ==
    /\ Len(history) < MaxSends
    /\ current_session' = Uuid(uuids + 1)
    /\ uuids' = uuids + 1
    /\ returned' = [call |-> "test_match_edge_activates", path |-> match_edge.path,
                    message |-> regex_to_sample_message(match_edge.pattern),
                    session_id |-> current_session',
                    passed |-> response = "content"]
    /\ history' = Append(history, returned')
    /\ UNCHANGED <<probeVars, trackerVars, config_attrs, cache, analyzer, pipeline>>

\* the platform answers with content, with an empty response, or fails
TestMatchEdgeActivates ==
    \E i \in 1..Len(extract_entry_edges_by_type(RunConfig, S_match)),
       response \in {"content", "empty", "error"} :
        test_match_edge_activates(extract_entry_edges_by_type(RunConfig, S_match)[i], response)

RunNext ==
    \/ TestMatchEdgeActivates

SpecRun == RunInit /\ [][RunNext]_vars

\* C26: every generated case that was executed against the platform is
\* recorded by the tracker: after the case the tracker holds the key of the
\* edge it exercised, with the outcome of the case in the key's results
C26_ExecutedCasesRecorded ==
    \A i \in 1..Len(history) :
        /\ EdgeKey(history[i].path) \in tested_elements
        /\ EdgeKey(history[i].path) \in DOMAIN test_results
        /\ \E k \in 1..Len(test_results[EdgeKey(history[i].path)]) :
              test_results[EdgeKey(history[i].path)][k].passed = history[i].passed

\* no two nodes of one scenario have the same id, a missing id being ""
UniqueNodeIds(attrs) ==
    \A s \in 1..Len(Scenarios(attrs)) :
        LET nodes == Get(Scenarios(attrs)[s], "nodes", << >>) IN
        \A m, n \in 1..Len(nodes) :
            m # n => Get(nodes[m], "id", << >>) # Get(nodes[n], "id", << >>)

\* C29: for a configuration in which no two nodes of a scenario share an id
\* the paths of the records extract_blocks() returns are pairwise distinct
C29_BlockPathsDistinct ==
    (/\ returned.call = "extract_blocks"
     /\ returned.raised = "none"
     /\ UniqueNodeIds(extract_bot_attributes(LastSet)))
    => \A i, j \in 1..Len(returned.value) :
           i # j => returned.value[i].path # returned.value[j].path

(***************************************************************************)
(* Test collection over many match edges: indexes of one and two digits    *)
(***************************************************************************)

MaxIdEdges == 12

\* patterns whose words begin with digits or underscores, a pattern without
\* words, the word 'pattern' itself, and one longer than the cut
IdPatterns ==
    {<<"x">>, <<"1", "x">>, <<"_", "1">>, <<"1">>, PatNoWords, PatLong,
     <<"p", "a", "t", "t", "e", "r", "n">>}

\* one scenario with n match edges of pattern 'x', two of them replaced
IdConfigs(n) ==
    {[scenarios |->
         <<[slug |-> <<"s", "1">>,
            entry_edges |->
                [k \in 1..n |->
                    [type |-> S_match,
                     value |-> IF k = a THEN p ELSE IF k = b THEN q ELSE <<"x">>]]]>>] :
        a \in 1..n, b \in 1..n, p \in IdPatterns, q \in IdPatterns}

\* pytest_generate_tests for a test that takes match_edge, the file holding
\* a configuration with MaxIdEdges match edges
CollectManyEdges ==
    \E config \in IdConfigs(MaxIdEdges) :
        pytest_generate_tests_loading({"match_edge"},
            [option |-> TRUE, exists |-> TRUE, json |-> TRUE, config |-> config])

IdsNext ==
    \/ CollectManyEdges
    \/ CollectCached

SpecIds == CollectInit /\ [][IdsNext]_vars

\* C30: the identifiers of the match_edge cases of one configuration are
\* pairwise distinct, whatever the patterns (equal ones, words beginning
\* with digits or underscores), and each is at most as long as 'match_',
\* the index digits, '_' and 50 characters
C30_IdsDistinctAndBounded ==
    (returned.call = "pytest_generate_tests"
        /\ "match_edge" \in DOMAIN returned.parametrized) =>
        LET cases == returned.parametrized["match_edge"] IN
        \A i \in 1..Len(cases) :
            ~cases[i].skip =>
                /\ \A j \in 1..Len(cases) : i # j => cases[i].id # cases[j].id
                /\ Len(cases[i].id) <= 6 + Len(FormatInt(i - 1)) + 1 + 50

\* equal patterns at positions 1 and 11, whose indexes are 1 and 11, with a
\* pattern beginning with a digit, and an identifier of full length
C30_Witness ==
    /\ returned.call = "pytest_generate_tests"
    /\ "match_edge" \in DOMAIN returned.parametrized
    /\ Len(returned.parametrized["match_edge"]) >= 12
    /\ returned.parametrized["match_edge"][2].value.pattern = <<"1", "x">>
    /\ returned.parametrized["match_edge"][12].value.pattern = <<"x">>
    /\ returned.parametrized["match_edge"][2].id = <<"m", "a", "t", "c", "h", "_", "1", "_", "1", "x">>
    /\ returned.parametrized["match_edge"][12].id = <<"m", "a", "t", "c", "h", "_", "1", "1", "_", "x">>
    /\ Len(returned.parametrized["match_edge"][5].id) = 6 + 1 + 1 + 50

=============================================================================
